---- MODULE Spec2Model ----
(***************************************************************************)
(* Model of the road formatting pipeline of roads_get_and_format:          *)
(* format_roads.py / get_roads.py (grouping, stitching, road types, size   *)
(* categories), add_areas.py / step_3_format_roads.py (area membership)   *)
(* and create_district_complete.py / create_district_upload.py (payload).  *)
(*                                                                         *)
(* Conventions.  A point is a pair <<x, y>> of integers.  A Python dict is *)
(* a record whose DOMAIN holds exactly the keys that are present, so       *)
(* d.get(k, default) is a test on DOMAIN.  Python lists are sequences;     *)
(* Python indices are 0-based and the model's are 1-based, so the index    *)
(* set {0} of the source is {1} here and None is NoIdx.                    *)
(***************************************************************************)
EXTENDS Integers, Sequences, FiniteSets, TLC

VARIABLES
    pc,              \* position of the running operation
    segments,        \* combine_segments: the group given to the stitcher
    segment_list,    \* combine_segments: coordinate lists accumulated so far
    total_length,    \* combine_segments: length accumulated so far
    used_indices,    \* combine_segments: indices of the segments consumed
    branch,          \* combine_segments: branch taken by the last step
    iterations,      \* combine_segments: loop iterations executed
    road_name,       \* extract_road_type: its argument
    road_type,       \* extract_road_type: its result
    roads_data,      \* group_and_combine_roads: the raw segments
    formatted_roads, \* the roads dictionary, in insertion order
    size_map,        \* calculate_size_categories: its result
    coordinates,     \* area membership: the road's coordinate lists
    areas,           \* area membership: area name -> geometry, in insertion order
    found_areas,     \* get_areas_for_coordinates: its result
    polygon,         \* check_road_in_area: exterior ring of its polygon
    in_area,         \* check_road_in_area: its result
    sub_areas,       \* area membership: sub-area name -> geometry, in insertion order
    runs,            \* add_areas_to_roads: number of runs so far
    pip_point,       \* point_in_polygon: its point argument
    pip_polygon,     \* point_in_polygon: its ring argument
    pip_inside,      \* point_in_polygon: its result
    user_inputs,     \* create_district_complete: district key and creator id given by the user
    area_objects,    \* create_district_complete: area objects of the payload
    road_objects,    \* create_district_complete: road objects of the payload
    error            \* create_district_complete: message of the ValueError raised, or None

stitchVars == <<segments, segment_list, total_length, used_indices, branch, iterations>>
typeVars == <<road_name, road_type>>
groupVars == <<roads_data, formatted_roads>>
sizeVars == <<size_map>>
areaVars == <<coordinates, areas, found_areas, polygon, in_area>>
addVars == <<sub_areas, runs>>
pipVars == <<pip_point, pip_polygon, pip_inside>>
uploadVars == <<user_inputs, area_objects, road_objects, error>>

vars == <<pc, stitchVars, typeVars, groupVars, sizeVars, areaVars, addVars, pipVars, uploadVars>>

----------------------------------------------------------------------------
(* Bounds of the model *)

\* largest number of segments in a group given to the stitcher
MaxSegs == 3

----------------------------------------------------------------------------
(* Generic helpers *)

Reverse(s) == [i \in 1..Len(s) |-> s[Len(s) + 1 - i]]

RECURSIVE SumSeq(_)
SumSeq(s) == IF s = <<>> THEN 0 ELSE Head(s) + SumSeq(Tail(s))

----------------------------------------------------------------------------
(* format_roads.py: the stitcher *)

\* dict.get(key, default) on a segment record
GetLength(segment) == IF "length" \in DOMAIN segment THEN segment.length ELSE 0

\* float('inf'): larger than every distance
Infinity == -1
NoIdx == 0

\* Variant of Less: a distance equal to the minimum replaces it
Less_OrEqual(d, m) == IF m = Infinity THEN TRUE ELSE d <= m

\* d < m for a finite d and an m that may be float('inf')
Less(d, m) == IF m = Infinity THEN TRUE ELSE d < m

\* The squared Euclidean distance.  math.sqrt is strictly increasing and the
\* code only ever compares distances, so the squares order the same way.
calculate_distance(point1, point2) ==
    (point1[1] - point2[1]) * (point1[1] - point2[1])
        + (point1[2] - point2[2]) * (point1[2] - point2[2])

\* One pass of the for loop of find_closest_segment, from index idx on.
RECURSIVE ScanSegments(_, _, _, _, _)
ScanSegments(start_point, remaining_segments, used, idx, best) ==
    IF idx > Len(remaining_segments) THEN best
    ELSE IF idx \in used
    THEN ScanSegments(start_point, remaining_segments, used, idx + 1, best)
    ELSE LET coords == remaining_segments[idx].coordinates
             first_point == coords[1]
             last_point == coords[Len(coords)]
             dist_to_first == calculate_distance(start_point, first_point)
             dist_to_last == calculate_distance(start_point, last_point)
             b1 == IF Less(dist_to_first, best.min_distance)
                   THEN [min_distance |-> dist_to_first, best_idx |-> idx,
                         best_reversed |-> FALSE]
                   ELSE best
             b2 == IF Less(dist_to_last, b1.min_distance)
                   THEN [min_distance |-> dist_to_last, best_idx |-> idx,
                         best_reversed |-> TRUE]
                   ELSE b1
         IN  ScanSegments(start_point, remaining_segments, used, idx + 1, b2)

find_closest_segment(start_point, remaining_segments, used) ==
    ScanSegments(start_point, remaining_segments, used, 1,
                 [min_distance |-> Infinity, best_idx |-> NoIdx,
                  best_reversed |-> FALSE])

\* segments[idx]['coordinates'], reversed when reversed_flag is set
Oriented(segs, idx, reversed_flag) ==
    IF reversed_flag THEN Reverse(segs[idx].coordinates)
    ELSE segs[idx].coordinates

\* Variant of StitchInit: a one-segment group is returned with length 0.0
StitchInit_SingleWithoutLength(segs) ==
    IF Len(segs) = 0
    THEN [segment_list |-> <<>>, total_length |-> 0, used_indices |-> {},
          branch |-> "empty", done |-> TRUE]
    ELSE IF Len(segs) = 1
    THEN [segment_list |-> <<segs[1].coordinates>>,
          total_length |-> 0, used_indices |-> {1},
          branch |-> "single", done |-> TRUE]
    ELSE [segment_list |-> <<segs[1].coordinates>>,
          total_length |-> GetLength(segs[1]), used_indices |-> {1},
          branch |-> "init", done |-> FALSE]

\* Variant of StitchInit: total_length starts at 0.0, without the first segment
StitchInit_FirstLengthForgotten(segs) ==
    IF Len(segs) = 0
    THEN [segment_list |-> <<>>, total_length |-> 0, used_indices |-> {},
          branch |-> "empty", done |-> TRUE]
    ELSE IF Len(segs) = 1
    THEN [segment_list |-> <<segs[1].coordinates>>,
          total_length |-> GetLength(segs[1]), used_indices |-> {1},
          branch |-> "single", done |-> TRUE]
    ELSE [segment_list |-> <<segs[1].coordinates>>,
          total_length |-> 0, used_indices |-> {1},
          branch |-> "init", done |-> FALSE]

\* Variant of StitchInit: used_indices starts empty, so the first segment is
\* a candidate again
StitchInit_FirstNotMarkedUsed(segs) ==
    IF Len(segs) = 0
    THEN [segment_list |-> <<>>, total_length |-> 0, used_indices |-> {},
          branch |-> "empty", done |-> TRUE]
    ELSE IF Len(segs) = 1
    THEN [segment_list |-> <<segs[1].coordinates>>,
          total_length |-> GetLength(segs[1]), used_indices |-> {1},
          branch |-> "single", done |-> TRUE]
    ELSE [segment_list |-> <<segs[1].coordinates>>,
          total_length |-> GetLength(segs[1]), used_indices |-> {},
          branch |-> "init", done |-> FALSE]

\* The state of combine_segments after its early returns and initialisation.
StitchInit(segs) ==
    IF Len(segs) = 0
    THEN [segment_list |-> <<>>, total_length |-> 0, used_indices |-> {},
          branch |-> "empty", done |-> TRUE]
    ELSE IF Len(segs) = 1
    THEN [segment_list |-> <<segs[1].coordinates>>,
          total_length |-> GetLength(segs[1]), used_indices |-> {1},
          branch |-> "single", done |-> TRUE]
    ELSE [segment_list |-> <<segs[1].coordinates>>,
          total_length |-> GetLength(segs[1]), used_indices |-> {1},
          branch |-> "init", done |-> FALSE]

\* Variant of StitchBody: the chosen segment is concatenated to the last
\* list, without its first point when that equals the anchor, instead of
\* being appended as a list of its own
StitchBody_Merging(segs, st) ==
    LET last_list == st.segment_list[Len(st.segment_list)]
        last_point == last_list[Len(last_list)]
        found == find_closest_segment(last_point, segs, st.used_indices)
        new_coords == Oriented(segs, found.best_idx, found.best_reversed)
        joined == IF new_coords[1] = last_point
                  THEN last_list \o Tail(new_coords)
                  ELSE last_list \o new_coords
    IN  IF found.best_idx = NoIdx
        THEN [st EXCEPT !.branch = "break", !.done = TRUE]
        ELSE [segment_list |->
                  [st.segment_list EXCEPT ![Len(st.segment_list)] = joined],
              total_length |-> st.total_length + GetLength(segs[found.best_idx]),
              used_indices |-> st.used_indices \cup {found.best_idx},
              branch |-> "append",
              done |-> FALSE]

\* One iteration of the while loop of combine_segments.
StitchBody(segs, st) ==
    LET last_point == st.segment_list[Len(st.segment_list)]
                          [Len(st.segment_list[Len(st.segment_list)])]
        found == find_closest_segment(last_point, segs, st.used_indices)
    IN  IF found.best_idx = NoIdx
        THEN LET first_point == st.segment_list[1][1]
                 again == find_closest_segment(first_point, segs, st.used_indices)
             IN  IF again.best_idx = NoIdx
                 THEN [st EXCEPT !.branch = "break", !.done = TRUE]
                 ELSE [segment_list |->
                           <<Oriented(segs, again.best_idx, again.best_reversed)>>
                               \o st.segment_list,
                       total_length |->
                           st.total_length + GetLength(segs[again.best_idx]),
                       used_indices |-> st.used_indices \cup {again.best_idx},
                       branch |-> "prepend",
                       done |-> FALSE]
        ELSE [segment_list |->
                  Append(st.segment_list,
                         Oriented(segs, found.best_idx, found.best_reversed)),
              total_length |-> st.total_length + GetLength(segs[found.best_idx]),
              used_indices |-> st.used_indices \cup {found.best_idx},
              branch |-> "append",
              done |-> FALSE]

\* The guard of the while loop.
LoopGuard(segs, st) == ~st.done /\ Cardinality(st.used_indices) < Len(segs)

RECURSIVE StitchLoop(_, _)
StitchLoop(segs, st) ==
    IF LoopGuard(segs, st) THEN StitchLoop(segs, StitchBody(segs, st)) ELSE st

\* combine_segments as a function: (segment_list, total_length)
combine_segments(segs) ==
    LET st == StitchLoop(segs, StitchInit(segs))
    IN  [coords |-> st.segment_list, length |-> st.total_length]

----------------------------------------------------------------------------
(* Inputs of the stitcher *)

\* Three points with pairwise squared distances 1, 1 and 2: from <<1, 0>> the
\* other two are equidistant, and both coordinates matter to the distance.
Points == {<<0, 0>>, <<1, 0>>, <<1, 1>>}

\* Every two-point polyline over Points (loops included) and one with three points.
CoordLists == {<<p, q>> : p, q \in Points} \cup {<<<<0, 0>>, <<1, 0>>, <<1, 1>>>>}

\* A segment with a 'length' key, and the same segment without one.
SegmentRecords ==
    {[coordinates |-> c] : c \in CoordLists}
        \cup {[coordinates |-> c, length |-> Len(c)] : c \in CoordLists}



----------------------------------------------------------------------------
(* Strings.  A Python str is the sequence of its characters, so that lower(), *)
(* endswith() and join() are computed character by character.                *)

UpperCase == <<"A", "B", "C", "D", "E", "F", "G", "H", "I", "J", "K", "L", "M",
               "N", "O", "P", "Q", "R", "S", "T", "U", "V", "W", "X", "Y", "Z">>
LowerCase == <<"a", "b", "c", "d", "e", "f", "g", "h", "i", "j", "k", "l", "m",
               "n", "o", "p", "q", "r", "s", "t", "u", "v", "w", "x", "y", "z">>

\* The lower-case letter of each upper-case letter
LowerOf == [c \in {UpperCase[i] : i \in 1..Len(UpperCase)} |->
               LowerCase[CHOOSE i \in 1..Len(UpperCase) : UpperCase[i] = c]]

\* str.lower() on one character
LowerChar(c) == IF c \in DOMAIN LowerOf THEN LowerOf[c] ELSE c

\* str.lower()
lower(s) == [i \in 1..Len(s) |-> LowerChar(s[i])]

\* str.endswith(suffix)
endswith(s, suffix) ==
    /\ Len(suffix) <= Len(s)
    /\ SubSeq(s, Len(s) - Len(suffix) + 1, Len(s)) = suffix

\* separator.join(parts)
RECURSIVE join(_, _)
join(separator, parts) ==
    IF parts = <<>> THEN <<>>
    ELSE IF Len(parts) = 1 THEN parts[1]
    ELSE parts[1] \o separator \o join(separator, Tail(parts))

\* The literals of the source
Str_Unknown == <<"U", "n", "k", "n", "o", "w", "n">>
Str_unnamed == <<"u", "n", "n", "a", "m", "e", "d">>
Str_Separator == <<" ", "/", " ">>
\* Python's None where a str is expected: no str equals it
None == <<"None">>

----------------------------------------------------------------------------
(* format_roads.py, get_roads.py: road types *)

ROAD_TYPES == <<
        <<"A", "v", "e", "n", "u", "e">>,
        <<"B", "a", "y">>,
        <<"B", "o", "u", "l", "e", "v", "a", "r", "d">>,
        <<"C", "i", "r", "c", "l", "e">>,
        <<"C", "o", "u", "r", "t">>,
        <<"C", "o", "v", "e">>,
        <<"D", "r", "i", "v", "e">>,
        <<"E", "x", "p", "r", "e", "s", "s", "w", "a", "y">>,
        <<"L", "a", "n", "e">>,
        <<"P", "a", "r", "k", "w", "a", "y">>,
        <<"P", "l", "a", "c", "e">>,
        <<"R", "o", "a", "d">>,
        <<"R", "o", "w">>,
        <<"S", "p", "u", "r">>,
        <<"S", "t", "r", "e", "e", "t">>,
        <<"W", "a", "y">> >>

\* Variant of EntryMatches: the suffix tests leave out the leading space
EntryMatches_WithoutSpace(name, entry) ==
    \/ endswith(name, entry)
    \/ endswith(lower(name), lower(entry))
    \/ lower(name) = lower(entry)

\* The three tests of the loop body of extract_road_type for one catalog entry.
EntryMatches(name, entry) ==
    LET search_pattern == <<" ">> \o entry
    IN  \/ endswith(name, search_pattern)
        \/ endswith(lower(name), lower(search_pattern))
        \/ lower(name) = lower(entry)

\* The for loop of extract_road_type from catalog index i on: first match wins.
RECURSIVE ScanRoadTypes(_, _)
ScanRoadTypes(name, i) ==
    IF i > Len(ROAD_TYPES) THEN None
    ELSE IF EntryMatches(name, ROAD_TYPES[i]) THEN ROAD_TYPES[i]
    ELSE ScanRoadTypes(name, i + 1)

extract_road_type(name) == ScanRoadTypes(name, 1)

----------------------------------------------------------------------------
(* format_roads.py, get_roads.py: names and grouping *)

\* A raw name is tagged with its Python type: [kind |-> "str", val |-> chars],
\* [kind |-> "list", val |-> <<chars, ...>>] or [kind |-> "none"].
StrName(s) == [kind |-> "str", val |-> s]
ListName(l) == [kind |-> "list", val |-> l]
NoneName == [kind |-> "none"]

\* The elements n of a list for which "if n" holds, in order
RECURSIVE Truthy(_)
Truthy(l) ==
    IF l = <<>> THEN <<>>
    ELSE IF Head(l) # <<>> THEN <<Head(l)>> \o Truthy(Tail(l))
    ELSE Truthy(Tail(l))

\* Variant of normalize_road_name: a list gives its first non-empty element
normalize_road_name_FirstOnly(name) ==
    IF name.kind = "list"
    THEN LET normalized == IF Truthy(name.val) = <<>> THEN <<>>
                            ELSE Truthy(name.val)[1]
         IN  IF normalized # <<>> THEN normalized ELSE Str_Unknown
    ELSE IF name.kind = "str" /\ name.val # <<>> THEN name.val
    ELSE Str_Unknown

normalize_road_name(name) ==
    IF name.kind = "list"
    THEN LET normalized == join(Str_Separator, Truthy(name.val))
         IN  IF normalized # <<>> THEN normalized ELSE Str_Unknown
    ELSE IF name.kind = "str" /\ name.val # <<>> THEN name.val
    ELSE Str_Unknown

\* segment.get('name', 'Unknown')
GetName(segment) ==
    IF "name" \in DOMAIN segment THEN segment.name ELSE StrName(Str_Unknown)

\* Variant of KeepsName: 'unnamed' is compared without lower()
KeepsName_CaseSensitive(name) ==
    /\ name # <<>>
    /\ name # Str_Unknown
    /\ name # Str_unnamed

\* The test that keeps a segment in group_and_combine_roads
KeepsName(name) ==
    /\ name # <<>>
    /\ name # Str_Unknown
    /\ lower(name) # Str_unnamed

\* Variant of AppendToGroup: the segment replaces the group of its name
\* instead of joining it
AppendToGroup_Replacing(roads_by_name, name, segment) ==
    IF \E k \in 1..Len(roads_by_name) : roads_by_name[k].name = name
    THEN [k \in 1..Len(roads_by_name) |->
            IF roads_by_name[k].name = name
            THEN [roads_by_name[k] EXCEPT !.segments = <<segment>>]
            ELSE roads_by_name[k]]
    ELSE Append(roads_by_name, [name |-> name, segments |-> <<segment>>])

\* roads_by_name[road_name].append(segment) on an insertion-ordered dict,
\* held as a sequence of [name, segments] entries
AppendToGroup(roads_by_name, name, segment) ==
    IF \E k \in 1..Len(roads_by_name) : roads_by_name[k].name = name
    THEN [k \in 1..Len(roads_by_name) |->
            IF roads_by_name[k].name = name
            THEN [roads_by_name[k] EXCEPT !.segments = Append(@, segment)]
            ELSE roads_by_name[k]]
    ELSE Append(roads_by_name, [name |-> name, segments |-> <<segment>>])

\* The first loop of group_and_combine_roads, from segment i on
RECURSIVE GroupSegments(_, _, _)
GroupSegments(data, i, roads_by_name) ==
    IF i > Len(data) THEN roads_by_name
    ELSE LET name == normalize_road_name(GetName(data[i]))
         IN  GroupSegments(data, i + 1,
                 IF KeepsName(name)
                 THEN AppendToGroup(roads_by_name, name, data[i])
                 ELSE roads_by_name)

\* format_roads.py: the record built for one road
FormatRoad(group) ==
    LET combined == combine_segments(group.segments)
    IN  [name |-> group.name,
         road_type |-> extract_road_type(group.name),
         coordinates |-> combined.coords,
         segment_count |-> Len(group.segments),
         total_points |->
             SumSeq([k \in 1..Len(combined.coords) |-> Len(combined.coords[k])]),
         length |-> combined.length]

\* format_roads.py: group_and_combine_roads; the result dict is the sequence
\* of its values in insertion order, each keyed by its 'name'
group_and_combine_roads(data) ==
    LET roads_by_name == GroupSegments(data, 1, <<>>)
    IN  [k \in 1..Len(roads_by_name) |-> FormatRoad(roads_by_name[k])]

----------------------------------------------------------------------------
(* get_roads.py: size categories and its group_and_combine_roads *)

\* list.sort(key=length) is stable: x goes behind every entry that is not longer
RECURSIVE InsertByLength(_, _)
InsertByLength(sorted, x) ==
    IF sorted = <<>> THEN <<x>>
    ELSE IF x.length < Head(sorted).length THEN <<x>> \o sorted
    ELSE <<Head(sorted)>> \o InsertByLength(Tail(sorted), x)

\* Variant of SortByLength: the roads are left in dictionary order
SortByLength_Unsorted(road_lengths) == road_lengths

\* road_lengths.sort(key=lambda x: x[1])
RECURSIVE SortByLength(_)
SortByLength(road_lengths) ==
    IF road_lengths = <<>> THEN <<>>
    ELSE InsertByLength(SortByLength(SubSeq(road_lengths, 1, Len(road_lengths) - 1)),
                        road_lengths[Len(road_lengths)])

\* Variant of SizeLabel: the bucket tests use <= instead of <
SizeLabel_OffByOne(i, small_count, medium_count) ==
    IF i - 1 <= small_count THEN "small"
    ELSE IF i - 1 <= small_count + medium_count THEN "medium"
    ELSE "big"

\* The label the enumerate loop gives to position i (0-based in the source)
SizeLabel(i, small_count, medium_count) ==
    IF i - 1 < small_count THEN "small"
    ELSE IF i - 1 < small_count + medium_count THEN "medium"
    ELSE "big"

\* The enumerate loop from position i on; size_map[name] = label overwrites
RECURSIVE FillSizeMap(_, _, _, _, _)
FillSizeMap(road_lengths, i, small_count, medium_count, map) ==
    IF i > Len(road_lengths) THEN map
    ELSE FillSizeMap(road_lengths, i + 1, small_count, medium_count,
             (road_lengths[i].name :> SizeLabel(i, small_count, medium_count)) @@ map)

\* The result dict is a function from road names to labels
calculate_size_categories(roads) ==
    IF roads = <<>> THEN <<>>
    ELSE LET road_lengths ==
                 SortByLength([k \in 1..Len(roads) |->
                                  [name |-> roads[k].name, length |-> roads[k].length]])
             total_roads == Len(road_lengths)
             small_count == total_roads \div 3
             medium_count == total_roads \div 3
         IN  FillSizeMap(road_lengths, 1, small_count, medium_count, <<>>)

\* get_roads.py: the road object built for one road, before its size is set
GetRoadsRoad(group) ==
    LET combined == combine_segments(group.segments)
    IN  [name |-> group.name,
         road_type |-> extract_road_type(group.name),
         coordinates |-> combined.coords,
         length |-> combined.length,
         segments |-> Len(group.segments),
         areas |-> <<>>,
         sub_areas |-> <<>>]

\* get_roads.py: group_and_combine_roads with district_id=None
get_roads_group_and_combine_roads(data) ==
    LET roads_by_name == GroupSegments(data, 1, <<>>)
        roads == [k \in 1..Len(roads_by_name) |-> GetRoadsRoad(roads_by_name[k])]
        sizes == calculate_size_categories(roads)
    IN  [k \in 1..Len(roads) |->
            [name |-> roads[k].name,
             road_type |-> roads[k].road_type,
             coordinates |-> roads[k].coordinates,
             length |-> roads[k].length,
             segments |-> roads[k].segments,
             areas |-> roads[k].areas,
             sub_areas |-> roads[k].sub_areas,
             size |-> sizes[roads[k].name]]]

----------------------------------------------------------------------------
(* Inputs of the road type extraction *)

UpperOf == [c \in {LowerCase[i] : i \in 1..Len(LowerCase)} |->
               UpperCase[CHOOSE i \in 1..Len(LowerCase) : LowerCase[i] = c]]

UpperChar(c) == IF c \in DOMAIN UpperOf THEN UpperOf[c] ELSE c

upper(s) == [i \in 1..Len(s) |-> UpperChar(s[i])]

Str_Main == <<"M", "a", "i", "n">>
Str_Broadway == <<"B", "r", "o", "a", "d", "w", "a", "y">>
Str_NoRoadType == <<"N", "o", " ", "R", "o", "a", "d", " ", "T", "y", "p", "e">>
Str_Here == <<"H", "e", "r", "e">>
Str_Circle == <<"C", "i", "r", "c", "l", "e">>
Str_Road == <<"R", "o", "a", "d">>
Str_Parkway == <<"P", "a", "r", "k", "w", "a", "y">>
Str_Street == <<"S", "t", "r", "e", "e", "t">>
Str_Way == <<"W", "a", "y">>
Str_Avenue == <<"A", "v", "e", "n", "u", "e">>

NamePrefixes == {<<>>, Str_Main, Str_Circle, Str_Broadway, Str_NoRoadType}
NameSeparators == {<<>>, <<" ">>}
NameSuffixes ==
    {<<>>, Str_Here}
        \cup {ROAD_TYPES[i] : i \in 1..Len(ROAD_TYPES)}
        \cup {lower(ROAD_TYPES[i]) : i \in 1..Len(ROAD_TYPES)}
        \cup {upper(ROAD_TYPES[i]) : i \in 1..Len(ROAD_TYPES)}
NameEndings == {<<>>, <<"s">>, <<" ">>}

\* "Main Street", "Circle Road", "Broadway Parkway", "Main street", "PARKWAY",
\* "Broadway", "Main Streets", "No Road Type Here", ...
TypeNames ==
    {p \o s \o x \o e : p \in NamePrefixes, s \in NameSeparators,
                        x \in NameSuffixes, e \in NameEndings}

----------------------------------------------------------------------------
(* Inputs of group_and_combine_roads *)

\* largest number of raw segments given to group_and_combine_roads
MaxRawSegs == 3

Str_OakAvenue == <<"O", "a", "k", " ", "A", "v", "e", "n", "u", "e">>
Str_StateRoute47 ==
    <<"S", "t", "a", "t", "e", " ", "R", "o", "u", "t", "e", " ", "4", "7">>
Str_Highway1 == <<"H", "i", "g", "h", "w", "a", "y", " ", "1">>
Str_UnNaMeD == <<"U", "n", "N", "a", "M", "e", "D">>

\* The values the 'name' key takes in the repository's tests and OSM data
RawNames ==
    {NoneName,
     StrName(<<>>),
     StrName(Str_unnamed),
     StrName(Str_UnNaMeD),
     StrName(Str_Unknown),
     StrName(Str_OakAvenue),
     ListName(<<>>),
     ListName(<< <<>> >>),
     ListName(<<Str_unnamed>>),
     ListName(<<Str_Highway1>>),
     ListName(<<Str_Broadway, Str_StateRoute47>>),
     ListName(<< <<>>, Str_OakAvenue >>)}

\* The i-th raw segment runs between <<i - 1, 0>> and <<i, 0>>, every second
\* one against the direction of the first:
\* [(0,0),(1,0)], [(2,0),(1,0)], [(2,0),(3,0)], ...
ZigZag(i) ==
    IF i % 2 = 1 THEN << <<i - 1, 0>>, <<i, 0>> >> ELSE << <<i, 0>>, <<i - 1, 0>> >>

\* What the 'name' key of a raw segment may be: one of RawNames, or absent
NameChoices == RawNames \cup {[kind |-> "absent"]}

\* Which segments lack a 'length' key: none, or the second one
LengthlessSets == {{}, {2}}

\* The i-th raw segment: its length is i where it has one
RawSegment(i, choice, lengthless) ==
    LET base == IF i \in lengthless THEN [coordinates |-> ZigZag(i)]
                ELSE [coordinates |-> ZigZag(i), length |-> i]
    IN  IF choice.kind = "absent" THEN base ELSE base @@ [name |-> choice]

\* The list of raw segments with the chosen names
RawRoadsData(choices, lengthless) ==
    [i \in 1..Len(choices) |-> RawSegment(i, choices[i], lengthless)]

----------------------------------------------------------------------------
(* Inputs of calculate_size_categories *)

\* largest number of roads in the dictionary given to calculate_size_categories
MaxRoads == 6
\* largest road length
MaxLength == 2

Digits == <<"1", "2", "3", "4", "5", "6", "7", "8", "9">>

\* Distinct dictionary keys "Road 1", "Road 2", ...
RoadKey(i) == <<"R", "o", "a", "d", " ", Digits[i]>>

\* The dictionary whose k-th road has length lengths[k]; only the keys that
\* calculate_size_categories reads are kept
SizedRoads(lengths) ==
    [k \in 1..Len(lengths) |-> [name |-> RoadKey(k), length |-> lengths[k]]]

----------------------------------------------------------------------------
(* Specifications: each operation runs on an input drawn from its bounded set *)

StitchIdle ==
    /\ segments = <<>>
    /\ segment_list = <<>>
    /\ total_length = 0
    /\ used_indices = {}
    /\ branch = "none"
    /\ iterations = 0

TypeIdle == road_name = <<>> /\ road_type = None
GroupIdle == roads_data = <<>> /\ formatted_roads = <<>>
SizeIdle == size_map = <<>>

AreaIdle ==
    /\ coordinates = <<>>
    /\ areas = <<>>
    /\ found_areas = <<>>
    /\ polygon = <<>>
    /\ in_area = FALSE

AddIdle ==
    /\ sub_areas = <<>>
    /\ runs = 0

PipIdle ==
    /\ pip_point = <<>>
    /\ pip_polygon = <<>>
    /\ pip_inside = FALSE

UploadIdle ==
    /\ user_inputs = [key |-> <<>>]
    /\ area_objects = <<>>
    /\ road_objects = <<>>
    /\ error = None

(* combine_segments, one loop iteration per step *)

InitStitch ==
    /\ pc = "combine_segments"
    /\ \E n \in 0..MaxSegs : segments \in [1..n -> SegmentRecords]
    /\ segment_list = <<>>
    /\ total_length = 0
    /\ used_indices = {}
    /\ branch = "none"
    /\ iterations = 0
    /\ TypeIdle /\ GroupIdle /\ SizeIdle /\ AreaIdle /\ AddIdle /\ PipIdle /\ UploadIdle

StitchState == [segment_list |-> segment_list, total_length |-> total_length,
                used_indices |-> used_indices, branch |-> branch, done |-> FALSE]

\* The early returns and the initialisation of combine_segments
CombineStart ==
    /\ pc = "combine_segments"
    /\ LET st == StitchInit(segments)
       IN  /\ segment_list' = st.segment_list
           /\ total_length' = st.total_length
           /\ used_indices' = st.used_indices
           /\ branch' = st.branch
           /\ pc' = IF st.done THEN "combine_segments.returned" ELSE "while"
    /\ UNCHANGED <<segments, iterations, typeVars, groupVars, sizeVars, areaVars, addVars, pipVars, uploadVars>>

\* One iteration of the while loop
CombineIterate ==
    /\ pc = "while"
    /\ LoopGuard(segments, StitchState)
    /\ LET st == StitchBody(segments, StitchState)
       IN  /\ segment_list' = st.segment_list
           /\ total_length' = st.total_length
           /\ used_indices' = st.used_indices
           /\ branch' = st.branch
           /\ pc' = IF st.done THEN "combine_segments.returned" ELSE "while"
    /\ iterations' = iterations + 1
    /\ UNCHANGED <<segments, typeVars, groupVars, sizeVars, areaVars, addVars, pipVars, uploadVars>>

\* The loop guard fails: return segment_list, total_length
CombineReturn ==
    /\ pc = "while"
    /\ ~LoopGuard(segments, StitchState)
    /\ pc' = "combine_segments.returned"
    /\ UNCHANGED <<stitchVars, typeVars, groupVars, sizeVars, areaVars, addVars, pipVars, uploadVars>>

NextStitch == CombineStart \/ CombineIterate \/ CombineReturn

SpecStitch == InitStitch /\ [][NextStitch]_vars

(* extract_road_type *)

InitType ==
    /\ pc = "extract_road_type"
    /\ road_name \in TypeNames
    /\ road_type = None
    /\ StitchIdle /\ GroupIdle /\ SizeIdle /\ AreaIdle /\ AddIdle /\ PipIdle /\ UploadIdle

ExtractRoadType ==
    /\ pc = "extract_road_type"
    /\ road_type' = extract_road_type(road_name)
    /\ pc' = "extract_road_type.returned"
    /\ UNCHANGED <<road_name, stitchVars, groupVars, sizeVars, areaVars, addVars, pipVars, uploadVars>>

NextType == ExtractRoadType

SpecType == InitType /\ [][NextType]_vars

(* group_and_combine_roads, of format_roads.py and of get_roads.py *)

InitGroup ==
    /\ pc = "group_and_combine_roads"
    /\ \E n \in 0..MaxRawSegs, lengthless \in LengthlessSets :
           \E choices \in [1..n -> NameChoices] :
               roads_data = RawRoadsData(choices, lengthless)
    /\ formatted_roads = <<>>
    /\ StitchIdle /\ TypeIdle /\ SizeIdle /\ AreaIdle /\ AddIdle /\ PipIdle /\ UploadIdle

FormatRoadsGroup ==
    /\ pc = "group_and_combine_roads"
    /\ formatted_roads' = group_and_combine_roads(roads_data)
    /\ pc' = "format_roads.returned"
    /\ UNCHANGED <<roads_data, stitchVars, typeVars, sizeVars, areaVars, addVars, pipVars, uploadVars>>

GetRoadsGroup ==
    /\ pc = "group_and_combine_roads"
    /\ formatted_roads' = get_roads_group_and_combine_roads(roads_data)
    /\ pc' = "get_roads.returned"
    /\ UNCHANGED <<roads_data, stitchVars, typeVars, sizeVars, areaVars, addVars, pipVars, uploadVars>>

NextGroup == FormatRoadsGroup \/ GetRoadsGroup

SpecGroup == InitGroup /\ [][NextGroup]_vars

(* calculate_size_categories *)

InitSize ==
    /\ pc = "calculate_size_categories"
    /\ \E n \in 0..MaxRoads :
           \E lengths \in [1..n -> 0..MaxLength] :
               formatted_roads = SizedRoads(lengths)
    /\ roads_data = <<>>
    /\ size_map = <<>>
    /\ StitchIdle /\ TypeIdle /\ AreaIdle /\ AddIdle /\ PipIdle /\ UploadIdle

CalculateSizeCategories ==
    /\ pc = "calculate_size_categories"
    /\ size_map' = calculate_size_categories(formatted_roads)
    /\ pc' = "calculate_size_categories.returned"
    /\ UNCHANGED <<stitchVars, typeVars, groupVars, areaVars, addVars, pipVars, uploadVars>>

NextSize == CalculateSizeCategories

SpecSize == InitSize /\ [][NextSize]_vars

(* The stitcher and its caller together *)

SpecRoads == (InitStitch \/ InitGroup) /\ [][NextStitch \/ NextGroup]_vars

----------------------------------------------------------------------------
(* Properties of the stitcher and of its caller *)

PointCount(lists) == SumSeq([k \in 1..Len(lists) |-> Len(lists[k])])

\* The sum of the 'length' fields that are present
SumOfLengths(segs) ==
    SumSeq([k \in 1..Len(segs) |->
               IF "length" \in DOMAIN segs[k] THEN segs[k].length ELSE 0])

\* lists holds each segment of segs exactly once, forward or reversed
OneToOne(lists, segs) ==
    /\ Len(lists) = Len(segs)
    /\ \E perm \in Permutations(1..Len(segs)) :
           \A k \in 1..Len(segs) :
               \/ lists[k] = segs[perm[k]].coordinates
               \/ lists[k] = Reverse(segs[perm[k]].coordinates)

Returned == pc = "combine_segments.returned"

\* C1: for a group of n >= 1 segments combine_segments returns exactly n
\* coordinate lists, and the lists correspond one to one to the input
\* segments, each being its segment's coordinates forward or reversed.
C1_EachSegmentExactlyOnce ==
    (Returned /\ Len(segments) >= 1) => OneToOne(segment_list, segments)

\* C1 witness: three segments with pairwise different point lists were
\* stitched, the third one second and reversed.
C1_Witness ==
    /\ Returned
    /\ Len(segments) = 3
    /\ segment_list[2] = Reverse(segments[3].coordinates)
    /\ segment_list[2] # segments[3].coordinates
    /\ segment_list[3] = segments[2].coordinates
    /\ \A i, j \in 1..3 :
           i # j => segments[i].coordinates
                       \notin {segments[j].coordinates, Reverse(segments[j].coordinates)}

\* C3: combine_segments on an empty group returns ([], 0); on a group of one
\* segment it returns that segment's coordinates unchanged as the only list,
\* with that segment's own length.
C3_EmptyAndSingleGroup ==
    /\ (Returned /\ Len(segments) = 0) => (segment_list = <<>> /\ total_length = 0)
    /\ (Returned /\ Len(segments) = 1) =>
           /\ segment_list = <<segments[1].coordinates>>
           /\ total_length = SumOfLengths(segments)

\* C3 witness: a single segment of three points with a length was returned.
C3_Witness ==
    /\ Returned
    /\ Len(segments) = 1
    /\ Len(segments[1].coordinates) = 3
    /\ "length" \in DOMAIN segments[1]
    /\ total_length = 3
    /\ iterations = 0

CoordinatesOf(segs) == [k \in 1..Len(segs) |-> segs[k].coordinates]

\* The raw segments whose normalized name is name, in input order
SegmentsNamed(data, name) ==
    LET HasName(segment) == normalize_road_name(GetName(segment)) = name
    IN  SelectSeq(data, HasName)

FormatRoadsReturned == pc = "format_roads.returned"
GetRoadsReturned == pc = "get_roads.returned"
GroupReturned == FormatRoadsReturned \/ GetRoadsReturned

\* The i-th dictionary key, and the dictionary's keys
KeyAt(roads, k) == roads[k].name
Keys(roads) == {roads[k].name : k \in 1..Len(roads)}

\* The input of the spec's end-to-end scenario: three segments named
\* "Oak Avenue", [(0,0),(1,0)], [(2,0),(1,0)], [(2,0),(3,0)], of lengths 1, 2, 3
OakAvenueData ==
    RawRoadsData(<<StrName(Str_OakAvenue), StrName(Str_OakAvenue),
                   StrName(Str_OakAvenue)>>, {})

OakAvenueExceptCoordinates ==
    /\ Len(formatted_roads) = 1
    /\ formatted_roads[1].name = Str_OakAvenue
    /\ formatted_roads[1].road_type = Str_Avenue
    /\ formatted_roads[1].length
           = roads_data[1].length + roads_data[2].length + roads_data[3].length

C4_LengthIsSumOfLengths ==
    /\ Returned => total_length = SumOfLengths(segments)
    /\ GroupReturned =>
           \A k \in 1..Len(formatted_roads) :
               formatted_roads[k].length
                   = SumOfLengths(SegmentsNamed(roads_data, KeyAt(formatted_roads, k)))

\* C4 witness: three segments, the second without a length, were stitched
\* out of input order and with a reversal.
C4_Witness ==
    /\ Returned
    /\ Len(segments) = 3
    /\ "length" \in DOMAIN segments[1]
    /\ "length" \notin DOMAIN segments[2]
    /\ "length" \in DOMAIN segments[3]
    /\ segment_list[2] = Reverse(segments[3].coordinates)
    /\ segment_list[2] # segments[3].coordinates
    /\ total_length = segments[1].length + segments[3].length

\* The chain point-count bounds for the lists returned for the group segs
PointCountBounds(lists, segs) ==
    LET P == PointCount(CoordinatesOf(segs))
    IN  /\ \A k \in 1..Len(lists) : Len(lists[k]) <= P
        /\ P - (Len(segs) - 1) <= PointCount(lists)
        /\ PointCount(lists) <= P

\* C5 as stated: for any group, with P the total point count of its
\* segments, every returned list has at most P points and the point counts of
\* the returned lists sum to a value between P - (segments - 1) and P.
C5_Original_AnyGroup == Returned => PointCountBounds(segment_list, segments)

\* C5 as amended: the same for any group of at least one segment, as returned
\* by combine_segments and as stored (coordinates, total_points) by
\* group_and_combine_roads, whose groups are never empty.
C5_PointCountBoundsNonEmpty ==
    /\ (Returned /\ Len(segments) >= 1) => PointCountBounds(segment_list, segments)
    /\ GroupReturned =>
           \A k \in 1..Len(formatted_roads) :
               PointCountBounds(formatted_roads[k].coordinates,
                                SegmentsNamed(roads_data, KeyAt(formatted_roads, k)))
    /\ FormatRoadsReturned =>
           \A k \in 1..Len(formatted_roads) :
               formatted_roads[k].total_points
                   = PointCount(formatted_roads[k].coordinates)

\* C5 witness: three segments with 2 + 3 + 2 points were stitched, one of them
\* joined at a coincident point.
C5_Witness ==
    /\ Returned
    /\ Len(segments) = 3
    /\ PointCount(CoordinatesOf(segments)) = 7
    /\ PointCount(segment_list) = 7
    /\ segment_list[2][1] = segment_list[1][Len(segment_list[1])]

----------------------------------------------------------------------------
(* Properties of the road type extraction *)

\* Two characters that are the same letter in either case, or equal
SameLetter(a, b) ==
    \/ a = b
    \/ \E i \in 1..Len(UpperCase) : {a, b} = {UpperCase[i], LowerCase[i]}

EqualsIgnoringCase(s, t) ==
    /\ Len(s) = Len(t)
    /\ \A i \in 1..Len(s) : SameLetter(s[i], t[i])

\* The name is the entry, or ends with a space followed by the entry, up to case
MatchesRule(name, entry) ==
    \/ EqualsIgnoringCase(name, entry)
    \/ /\ Len(name) > Len(entry)
       /\ name[Len(name) - Len(entry)] = " "
       /\ EqualsIgnoringCase(
              SubSeq(name, Len(name) - Len(entry) + 1, Len(name)), entry)

TypeReturned == pc = "extract_road_type.returned"

\* C6: extract_road_type returns the catalog entry E, in the catalog's
\* casing, exactly when the name case-insensitively ends with a space followed
\* by E or equals E, and None when no entry does; "Circle Road" gives "Road",
\* "Broadway Parkway" gives "Parkway", "Main street" gives "Street" and
\* "No Road Type Here" gives None.
C6_RoadTypeIsTheMatchingEntry ==
    TypeReturned =>
        /\ \A i \in 1..Len(ROAD_TYPES) :
               (road_type = ROAD_TYPES[i]) <=> MatchesRule(road_name, ROAD_TYPES[i])
        /\ (road_type = None)
               <=> (\A i \in 1..Len(ROAD_TYPES) : ~MatchesRule(road_name, ROAD_TYPES[i]))
        /\ (road_name = Str_Circle \o <<" ">> \o Str_Road) => road_type = Str_Road
        /\ (road_name = Str_Broadway \o <<" ">> \o Str_Parkway) =>
               road_type = Str_Parkway
        /\ (road_name = Str_Main \o <<" ">> \o lower(Str_Street)) =>
               road_type = Str_Street
        /\ (road_name = Str_NoRoadType \o <<" ">> \o Str_Here) => road_type = None

\* C6 witness: "Broadway PARKWAY" was classified as the entry "Parkway".
C6_Witness ==
    /\ TypeReturned
    /\ road_name = Str_Broadway \o <<" ">> \o upper(Str_Parkway)
    /\ road_type = Str_Parkway

----------------------------------------------------------------------------
(* Properties of the grouping *)

\* Raw segment i is part of road k: its coordinates, which no other raw
\* segment has, are one of the road's lists, forward or reversed
InRoad(i, k) ==
    \E j \in 1..Len(formatted_roads[k].coordinates) :
        formatted_roads[k].coordinates[j]
            \in {roads_data[i].coordinates, Reverse(roads_data[i].coordinates)}

InOutput(i) == \E k \in 1..Len(formatted_roads) : InRoad(i, k)

\* The name is missing, None, the empty string, an empty list, a list of only
\* empty strings, or "unnamed" in any casing
IsDroppedName(segment) ==
    \/ "name" \notin DOMAIN segment
    \/ segment.name.kind = "none"
    \/ /\ segment.name.kind = "str"
       /\ \/ segment.name.val = <<>>
          \/ EqualsIgnoringCase(segment.name.val, Str_unnamed)
    \/ /\ segment.name.kind = "list"
       /\ \A j \in 1..Len(segment.name.val) : segment.name.val[j] = <<>>

\* C7: every segment whose name is missing, None, empty, an empty list, a list
\* of only empty strings or case-insensitively "unnamed" is in no road, and no
\* key of the output is empty or case-insensitively "unnamed".
C7_DroppedNamesAreExcluded ==
    GroupReturned =>
        /\ \A i \in 1..Len(roads_data) :
               IsDroppedName(roads_data[i]) => ~InOutput(i)
        /\ \A k \in 1..Len(formatted_roads) :
               /\ KeyAt(formatted_roads, k) # <<>>
               /\ ~EqualsIgnoringCase(KeyAt(formatted_roads, k), Str_unnamed)

\* C7 witness: of three segments named "UnNaMeD", [''] and "Oak Avenue" only
\* the last one became a road.
C7_Witness ==
    /\ FormatRoadsReturned
    /\ Len(roads_data) = 3
    /\ "name" \in DOMAIN roads_data[1] /\ roads_data[1].name = StrName(Str_UnNaMeD)
    /\ "name" \in DOMAIN roads_data[2] /\ roads_data[2].name = ListName(<< <<>> >>)
    /\ "name" \in DOMAIN roads_data[3] /\ roads_data[3].name = StrName(Str_OakAvenue)
    /\ Keys(formatted_roads) = {Str_OakAvenue}
    /\ InRoad(3, 1)

\* The non-empty elements of a list, in order, with " / " between them
RECURSIVE Slashed(_)
Slashed(l) ==
    IF l = <<>> THEN <<>>
    ELSE IF Head(l) = <<>> THEN Slashed(Tail(l))
    ELSE IF Slashed(Tail(l)) = <<>> THEN Head(l)
    ELSE Head(l) \o <<" ", "/", " ">> \o Slashed(Tail(l))

HasListName(segment) == "name" \in DOMAIN segment /\ segment.name.kind = "list"

\* Raw segment i is in the road keyed by key
KeyedBy(i, key) ==
    \E k \in 1..Len(formatted_roads) : KeyAt(formatted_roads, k) = key /\ InRoad(i, k)

\* C8 as stated: normalize_road_name maps every list-valued name to the string
\* of its non-empty elements joined by " / ", and group_and_combine_roads keys
\* the segment's road by exactly that string.
C8_Original_EveryList ==
    GroupReturned =>
        \A i \in 1..Len(roads_data) :
            HasListName(roads_data[i]) =>
                /\ normalize_road_name(roads_data[i].name)
                       = Slashed(roads_data[i].name.val)
                /\ KeyedBy(i, Slashed(roads_data[i].name.val))

\* C8 as amended: normalize_road_name maps a list-valued name with at least
\* one non-empty element to the string of its non-empty elements joined by
\* " / " and a list without one to 'Unknown'; group_and_combine_roads keys the
\* segment's road by exactly that string, unless the string is 'Unknown' or
\* case-insensitively 'unnamed': then the segment is dropped.
C8_ListNamesJoined ==
    GroupReturned =>
        \A i \in 1..Len(roads_data) :
            HasListName(roads_data[i]) =>
                LET joined == Slashed(roads_data[i].name.val)
                    normalized == normalize_road_name(roads_data[i].name)
                IN  /\ normalized = IF joined = <<>> THEN Str_Unknown ELSE joined
                    /\ IF normalized = Str_Unknown
                             \/ EqualsIgnoringCase(normalized, Str_unnamed)
                       THEN ~InOutput(i)
                       ELSE KeyedBy(i, normalized)
                    /\ roads_data[i].name.val = <<Str_Broadway, Str_StateRoute47>> =>
                           normalized = Str_Broadway \o <<" ", "/", " ">>
                                            \o Str_StateRoute47
                    /\ roads_data[i].name.val = <<Str_Highway1>> =>
                           normalized = Str_Highway1

\* C8 witness: segments named ['Broadway', 'State Route 47'], ['Highway 1']
\* and ['', 'Oak Avenue'] became the roads "Broadway / State Route 47",
\* "Highway 1" and "Oak Avenue".
C8_Witness ==
    /\ GetRoadsReturned
    /\ Len(roads_data) = 3
    /\ HasListName(roads_data[1])
    /\ roads_data[1].name.val = <<Str_Broadway, Str_StateRoute47>>
    /\ HasListName(roads_data[2])
    /\ roads_data[2].name.val = <<Str_Highway1>>
    /\ HasListName(roads_data[3])
    /\ roads_data[3].name.val = << <<>>, Str_OakAvenue >>
    /\ KeyedBy(1, Str_Broadway \o Str_Separator \o Str_StateRoute47)
    /\ KeyedBy(2, Str_Highway1)
    /\ KeyedBy(3, Str_OakAvenue)

----------------------------------------------------------------------------
(* Properties of the size categories *)

SizeReturned == pc = "calculate_size_categories.returned"

\* The positions of formatted_roads whose road carries the label
Labelled(label) ==
    {k \in 1..Len(formatted_roads) : size_map[KeyAt(formatted_roads, k)] = label}

SizeRank(label) == CASE label = "small" -> 1 [] label = "medium" -> 2 [] OTHER -> 3

\* C9: of n roads, calculate_size_categories labels n \div 3 'small', n \div 3
\* 'medium' and the remaining n - 2 * (n \div 3) 'big', in ascending order of
\* length (equal lengths in their given order): 6 roads give 2/2/2, 4 give
\* 1/1/2, 3 give 1/1/1 and 1 gives only 'big'; every road has exactly one
\* label.
C9_ThirdsByAscendingLength ==
    SizeReturned =>
        LET n == Len(formatted_roads)
        IN  /\ DOMAIN size_map = Keys(formatted_roads)
            /\ \A k \in 1..n :
                   size_map[KeyAt(formatted_roads, k)] \in {"small", "medium", "big"}
            /\ Cardinality(Labelled("small")) = n \div 3
            /\ Cardinality(Labelled("medium")) = n \div 3
            /\ Cardinality(Labelled("big")) = n - 2 * (n \div 3)
            /\ \A a, b \in 1..n :
                   LET rank_a == SizeRank(size_map[KeyAt(formatted_roads, a)])
                       rank_b == SizeRank(size_map[KeyAt(formatted_roads, b)])
                   IN  (\/ formatted_roads[a].length < formatted_roads[b].length
                        \/ /\ formatted_roads[a].length = formatted_roads[b].length
                           /\ a < b)
                           => rank_a <= rank_b
            /\ n = 6 => /\ Cardinality(Labelled("small")) = 2
                        /\ Cardinality(Labelled("medium")) = 2
                        /\ Cardinality(Labelled("big")) = 2
            /\ n = 4 => /\ Cardinality(Labelled("small")) = 1
                        /\ Cardinality(Labelled("medium")) = 1
                        /\ Cardinality(Labelled("big")) = 2
            /\ n = 3 => /\ Cardinality(Labelled("small")) = 1
                        /\ Cardinality(Labelled("medium")) = 1
                        /\ Cardinality(Labelled("big")) = 1
            /\ n = 1 => Labelled("big") = {1}

\* C9 witness: four roads of lengths 2, 0, 1, 2 were labelled big, small,
\* medium, big.
C9_Witness ==
    /\ SizeReturned
    /\ Len(formatted_roads) = 4
    /\ formatted_roads[1].length = 2 /\ formatted_roads[2].length = 0
    /\ formatted_roads[3].length = 1 /\ formatted_roads[4].length = 2
    /\ Labelled("small") = {2}
    /\ Labelled("medium") = {3}
    /\ Labelled("big") = {1, 4}

----------------------------------------------------------------------------
(* Area membership: step_3_format_roads.py (ray casting) *)

\* A point is <<lon, lat>>; a ring is a sequence of points; a GeoJSON
\* geometry is a record with the fields 'type' and 'coordinates'.

Min(a, b) == IF a <= b THEN a ELSE b
Max(a, b) == IF a >= b THEN a ELSE b

\* lon <= x_intersect, with
\*   x_intersect = (lat - p1_lat) * (p2_lon - p1_lon) / (p2_lat - p1_lat) + p1_lon
\* and p1_lat # p2_lat, multiplied out by p2_lat - p1_lat. On the integer
\* coordinates of the model the float quotient is either an integer or off an
\* integer by far more than its rounding error, so the comparison is exact.
LeftOfIntersection(lon, lat, p1, p2) ==
    LET d == p2[2] - p1[2]
        num == (lat - p1[2]) * (p2[1] - p1[1])
    IN  IF d > 0 THEN (lon - p1[1]) * d <= num
        ELSE (lon - p1[1]) * d >= num

\* Variant of Toggles: the test lon <= max(p1_lon, p2_lon) is left out
Toggles_WithoutLonTest(point, p1, p2) ==
    LET lon == point[1]
        lat == point[2]
    IN  /\ lat > Min(p1[2], p2[2])
        /\ lat <= Max(p1[2], p2[2])
        /\ p1[2] # p2[2]
        /\ (p1[1] = p2[1] \/ LeftOfIntersection(lon, lat, p1, p2))

\* The nested tests under which the edge p1 -> p2 flips 'inside'
Toggles(point, p1, p2) ==
    LET lon == point[1]
        lat == point[2]
    IN  /\ lat > Min(p1[2], p2[2])
        /\ lat <= Max(p1[2], p2[2])
        /\ lon <= Max(p1[1], p2[1])
        /\ p1[2] # p2[2]
        /\ (p1[1] = p2[1] \/ LeftOfIntersection(lon, lat, p1, p2))

\* Variant of RayCast: the loop stops at the last vertex, without the edge
\* back to the first one
RayCast_WithoutWrap(point, polygon_coords, i, p1, inside) ==
    LET n == Len(polygon_coords)
        Edge(k) == Toggles(point, polygon_coords[IF k = 0 THEN 1 ELSE k],
                           polygon_coords[k + 1])
    IN  Cardinality({k \in 0..(n - 1) : Edge(k)}) % 2 = 1

\* for i in range(n + 1), from iteration i on (i is 0-based as in the source)
RECURSIVE RayCast(_, _, _, _, _)
RayCast(point, polygon_coords, i, p1, inside) ==
    LET n == Len(polygon_coords)
    IN  IF i > n THEN inside
        ELSE LET p2 == polygon_coords[(i % n) + 1]
             IN  RayCast(point, polygon_coords, i + 1, p2,
                         IF Toggles(point, p1, p2) THEN ~inside ELSE inside)

point_in_polygon(point, polygon_coords) ==
    RayCast(point, polygon_coords, 0, polygon_coords[1], FALSE)

\* for coord in segment: if point_in_polygon(...): add the area; break
RECURSIVE ScanCoords(_, _, _)
ScanCoords(segment, c, polygon_coords) ==
    IF c > Len(segment) THEN FALSE
    ELSE IF point_in_polygon(segment[c], polygon_coords) THEN TRUE
    ELSE ScanCoords(segment, c + 1, polygon_coords)

\* for segment in coordinates: ...; if area_name in found_areas: break
RECURSIVE ScanRoad(_, _, _)
ScanRoad(coords, s, polygon_coords) ==
    IF s > Len(coords) THEN FALSE
    ELSE IF ScanCoords(coords[s], 1, polygon_coords) THEN TRUE
    ELSE ScanRoad(coords, s + 1, polygon_coords)

\* Variant of ScanPolygons: only the first polygon of the MultiPolygon is looked at
ScanPolygons_FirstOnly(coords, polygons, k) ==
    IF k > Len(polygons) THEN FALSE
    ELSE ScanRoad(coords, 1, polygons[k][1])

\* for polygon in geometry['coordinates'], looking at polygon[0] only
RECURSIVE ScanPolygons(_, _, _)
ScanPolygons(coords, polygons, k) ==
    IF k > Len(polygons) THEN FALSE
    ELSE IF ScanRoad(coords, 1, polygons[k][1]) THEN TRUE
    ELSE ScanPolygons(coords, polygons, k + 1)

\* Variant of AreaFound: a point of a Polygon counts only if it is inside
\* the first ring and inside none of the other rings
AreaFound_HolesExcluded(coords, geometry) ==
    LET geom_type == IF "type" \in DOMAIN geometry THEN geometry.type ELSE "None"
        rings == geometry.coordinates
    IN  IF geom_type = "Polygon"
        THEN \E s \in 1..Len(coords) : \E c \in 1..Len(coords[s]) :
                 /\ point_in_polygon(coords[s][c], rings[1])
                 /\ \A h \in 2..Len(rings) : ~point_in_polygon(coords[s][c], rings[h])
        ELSE IF geom_type = "MultiPolygon"
        THEN ScanPolygons(coords, geometry.coordinates, 1)
        ELSE FALSE

\* The body of the loop over areas: whether area_name is added to found_areas
AreaFound(coords, geometry) ==
    LET geom_type == IF "type" \in DOMAIN geometry THEN geometry.type ELSE "None"
    IN  IF geom_type = "Polygon"
        THEN ScanRoad(coords, 1, geometry.coordinates[1])
        ELSE IF geom_type = "MultiPolygon"
        THEN ScanPolygons(coords, geometry.coordinates, 1)
        ELSE FALSE

\* Python's order on strings, for names of lower-case letters
Ord(ch) == CHOOSE i \in 1..Len(LowerCase) : LowerCase[i] = ch

RECURSIVE StrLess(_, _)
StrLess(s, t) ==
    IF t = <<>> THEN FALSE
    ELSE IF s = <<>> THEN TRUE
    ELSE IF Head(s) # Head(t) THEN Ord(Head(s)) < Ord(Head(t))
    ELSE StrLess(Tail(s), Tail(t))

\* sorted(list(names)) of a set of strings
RECURSIVE sorted(_)
sorted(names) ==
    IF names = {} THEN <<>>
    ELSE LET least == CHOOSE x \in names : \A y \in names \ {x} : StrLess(x, y)
         IN  <<least>> \o sorted(names \ {least})

\* Variant of get_areas_for_coordinates: the names are returned in the order
\* in which the areas dictionary is iterated, without sorting
RECURSIVE FoundInOrder(_, _)
FoundInOrder(coords, area_map) ==
    IF area_map = <<>> THEN <<>>
    ELSE (IF AreaFound(coords, Head(area_map).geometry)
          THEN <<Head(area_map).name>> ELSE <<>>)
         \o FoundInOrder(coords, Tail(area_map))

get_areas_for_coordinates_Unsorted(coords, area_map) == FoundInOrder(coords, area_map)

get_areas_for_coordinates(coords, area_map) ==
    sorted({area_map[a].name : a \in {b \in 1..Len(area_map) :
                                        AreaFound(coords, area_map[b].geometry)}})

(* Area membership: add_areas.py (shapely) *)

\* The edges of a ring, the closing edge from the last vertex to the first
\* included (shapely closes a ring that is given open)
RingEdge(ring, i) == <<ring[i], ring[(i % Len(ring)) + 1]>>

\* Twice the signed area of the triangle a, b, p
Cross(a, b, p) == (b[1] - a[1]) * (p[2] - a[2]) - (b[2] - a[2]) * (p[1] - a[1])

OnEdge(a, b, p) ==
    /\ Cross(a, b, p) = 0
    /\ Min(a[1], b[1]) <= p[1] /\ p[1] <= Max(a[1], b[1])
    /\ Min(a[2], b[2]) <= p[2] /\ p[2] <= Max(a[2], b[2])

\* The horizontal ray from p to the right crosses the edge a -> b
CrossesRay(a, b, p) ==
    /\ (a[2] > p[2]) # (b[2] > p[2])
    /\ IF b[2] > a[2] THEN Cross(a, b, p) > 0 ELSE Cross(a, b, p) < 0

\* polygon.contains(Point(x, y)) for a polygon without holes, given by its
\* exterior ring: the point is in the interior, a point of the boundary is
\* not contained
contains(ring, point) ==
    /\ \A i \in 1..Len(ring) : ~OnEdge(RingEdge(ring, i)[1], RingEdge(ring, i)[2], point)
    /\ Cardinality({i \in 1..Len(ring) :
           CrossesRay(RingEdge(ring, i)[1], RingEdge(ring, i)[2], point)}) % 2 = 1

\* for coord in segment: if polygon.contains(point): return True
RECURSIVE CheckCoords(_, _, _)
CheckCoords(segment, c, ring) ==
    IF c > Len(segment) THEN FALSE
    ELSE IF contains(ring, segment[c]) THEN TRUE
    ELSE CheckCoords(segment, c + 1, ring)

\* for segment in road_data['coordinates']: ...; return False
RECURSIVE CheckSegments(_, _, _)
CheckSegments(coords, s, ring) ==
    IF s > Len(coords) THEN FALSE
    ELSE IF CheckCoords(coords[s], 1, ring) THEN TRUE
    ELSE CheckSegments(coords, s + 1, ring)

check_road_in_area(road_data, ring) == CheckSegments(road_data.coordinates, 1, ring)

\* The polygon load_area_geojson builds, as its exterior ring, or nothing
\* (the source's (None, None))
load_area_geojson(geojson_data) ==
    IF /\ geojson_data.type = "FeatureCollection"
       /\ geojson_data.features # <<>>
       /\ geojson_data.features[1].geometry.type = "Polygon"
    THEN [loaded |-> TRUE,
          polygon |-> geojson_data.features[1].geometry.coordinates[1]]
    ELSE [loaded |-> FALSE]

\* The GeoJSON file of an area: a FeatureCollection of one Feature
AreaFile(geometry) ==
    [type |-> "FeatureCollection",
     features |-> <<[type |-> "Feature", geometry |-> geometry]>>]

----------------------------------------------------------------------------
(* The roads and areas the area membership is run on *)

MaxLists == 2

SquareRing == << <<0, 0>>, <<2, 0>>, <<2, 2>>, <<0, 2>>, <<0, 0>> >>
OpenSquareRing == << <<0, 0>>, <<2, 0>>, <<2, 2>>, <<0, 2>> >>
TriangleRing == << <<0, 0>>, <<4, 0>>, <<0, 4>>, <<0, 0>> >>
FarRing == << <<2, 0>>, <<4, 0>>, <<4, 2>>, <<2, 2>>, <<2, 0>> >>
OuterRing == << <<-2, -2>>, <<4, -2>>, <<4, 4>>, <<-2, 4>>, <<-2, -2>> >>

Geometries ==
    { [type |-> "Polygon", coordinates |-> <<SquareRing>>],
      [type |-> "Polygon", coordinates |-> <<OpenSquareRing>>],
      [type |-> "Polygon", coordinates |-> <<TriangleRing>>],
      [type |-> "Polygon", coordinates |-> <<OuterRing, SquareRing>>],
      [type |-> "MultiPolygon", coordinates |-> << <<SquareRing>>, <<FarRing>> >>],
      [type |-> "MultiPolygon", coordinates |-> << <<SquareRing>> >>],
      [type |-> "GeometryCollection"] }

\* Coordinate lists of points inside the square, outside every ring, and on
\* the right, left, bottom and top edge of the square
RoadLists ==
    { << <<1, 1>> >>,
      << <<1, 1>>, <<5, 5>> >>,
      << <<5, 5>>, <<1, 1>> >>,
      << <<5, 5>>, <<-1, 1>> >>,
      << <<2, 1>> >>,
      << <<0, 1>>, <<1, 0>> >>,
      << <<1, 2>>, <<5, 5>> >>,
      << <<3, 1>>, <<5, 5>> >> }

Str_north == <<"n", "o", "r", "t", "h">>
Str_south == <<"s", "o", "u", "t", "h">>

\* The insertion orders of an areas dictionary over the two names
AreaNameOrders ==
    {<<>>, <<Str_north>>, <<Str_south>>, <<Str_north, Str_south>>,
     <<Str_south, Str_north>>}

AreasOf(names, geoms) ==
    [k \in 1..Len(names) |-> [name |-> names[k], geometry |-> geoms[k]]]

(* get_areas_for_coordinates and check_road_in_area *)

InitArea ==
    /\ pc = "areas"
    /\ \E n \in 0..MaxLists : coordinates \in [1..n -> RoadLists]
    /\ \E names \in AreaNameOrders :
           \E geoms \in [1..Len(names) -> Geometries] :
               areas = AreasOf(names, geoms)
    /\ found_areas = <<>>
    /\ polygon = <<>>
    /\ in_area = FALSE
    /\ StitchIdle /\ TypeIdle /\ GroupIdle /\ SizeIdle /\ AddIdle /\ PipIdle /\ UploadIdle

GetAreasForCoordinates ==
    /\ pc = "areas"
    /\ found_areas' = get_areas_for_coordinates(coordinates, areas)
    /\ pc' = "get_areas_for_coordinates.returned"
    /\ UNCHANGED <<coordinates, areas, polygon, in_area,
                   stitchVars, typeVars, groupVars, sizeVars, addVars, pipVars, uploadVars>>

\* check_road_in_area on the polygon loaded from the file of one of the areas
CheckRoadInArea ==
    /\ pc = "areas"
    /\ \E a \in 1..Len(areas) :
           LET area == load_area_geojson(AreaFile(areas[a].geometry))
           IN  /\ area.loaded
               /\ polygon' = area.polygon
               /\ in_area' = check_road_in_area([coordinates |-> coordinates],
                                                area.polygon)
    /\ pc' = "check_road_in_area.returned"
    /\ UNCHANGED <<coordinates, areas, found_areas,
                   stitchVars, typeVars, groupVars, sizeVars, addVars, pipVars, uploadVars>>

NextArea == GetAreasForCoordinates \/ CheckRoadInArea

SpecArea == InitArea /\ [][NextArea]_vars

----------------------------------------------------------------------------
(* Properties of the area membership *)

\* The point lies in the interior of a convex ring: strictly on the same side
\* of every edge
StrictlyInside(point, ring) ==
    LET edges == {i \in 1..Len(ring) : RingEdge(ring, i)[1] # RingEdge(ring, i)[2]}
    IN  \/ \A i \in edges : Cross(RingEdge(ring, i)[1], RingEdge(ring, i)[2], point) > 0
        \/ \A i \in edges : Cross(RingEdge(ring, i)[1], RingEdge(ring, i)[2], point) < 0

OnBoundary(point, ring) ==
    \E i \in 1..Len(ring) : OnEdge(RingEdge(ring, i)[1], RingEdge(ring, i)[2], point)

\* At least one point of at least one coordinate list is inside the ring
SomePointInside(coords, ring) ==
    \E s \in 1..Len(coords) : \E c \in 1..Len(coords[s]) :
        StrictlyInside(coords[s][c], ring)

SomePointOnBoundary(coords, ring) ==
    \E s \in 1..Len(coords) : \E c \in 1..Len(coords[s]) :
        OnBoundary(coords[s][c], ring)

\* The areas whose geometry is a polygon of a single ring
SimplePolygonAreas ==
    {a \in 1..Len(areas) :
        /\ areas[a].geometry.type = "Polygon"
        /\ Len(areas[a].geometry.coordinates) = 1}

Reported(a) == \E k \in 1..Len(found_areas) : found_areas[k] = areas[a].name

AreasReturned == pc = "get_areas_for_coordinates.returned"
CheckReturned == pc = "check_road_in_area.returned"

BoundaryPointReported ==
    /\ AreasReturned
    /\ coordinates = << << <<2, 1>> >> >>
    /\ Len(areas) = 1
    /\ areas[1].geometry = [type |-> "Polygon", coordinates |-> <<SquareRing>>]
    /\ found_areas = <<areas[1].name>>

\* check_road_in_area reports a road exactly when some point is inside, and
\* get_areas_for_coordinates does so for a road that has no point on the
\* boundary of the area's ring.
ReportedIffInsideOffBoundary ==
    /\ AreasReturned =>
           \A a \in SimplePolygonAreas :
               ~SomePointOnBoundary(coordinates, areas[a].geometry.coordinates[1]) =>
                   (Reported(a) <=>
                        SomePointInside(coordinates, areas[a].geometry.coordinates[1]))
    /\ CheckReturned => (in_area <=> SomePointInside(coordinates, polygon))

\* A road with one point inside and one outside, and a road with an inside
\* point only in its second list, reported by both paths.
AnyPointIsEnough ==
    /\ AreasReturned \/ CheckReturned
    /\ Len(coordinates) = 2
    /\ coordinates[1] = << <<5, 5>>, <<-1, 1>> >>
    /\ coordinates[2] = << <<1, 1>>, <<5, 5>> >>
    /\ Len(areas) = 1
    /\ areas[1].geometry = [type |-> "Polygon", coordinates |-> <<SquareRing>>]
    /\ AreasReturned => found_areas = <<areas[1].name>>
    /\ CheckReturned => in_area

----------------------------------------------------------------------------
(* add_areas.py: load_all_areas and add_areas_to_roads *)

\* The dictionary name -> polygon that load_all_areas builds from the files
\* of the areas, a file that load_area_geojson cannot load being skipped
RECURSIVE load_all_areas(_)
load_all_areas(area_map) ==
    IF area_map = <<>> THEN <<>>
    ELSE LET area == load_area_geojson(AreaFile(Head(area_map).geometry))
         IN  (IF Head(area_map).name # <<>> /\ area.loaded
              THEN <<[name |-> Head(area_map).name, polygon |-> area.polygon]>>
              ELSE <<>>)
             \o load_all_areas(Tail(area_map))

InList(x, list) == \E k \in 1..Len(list) : list[k] = x

\* Variant of AppendIfAbsent: the name is appended without the membership test
AppendIfAbsent_Always(list, area_name) == Append(list, area_name)

\* if area_name not in road[field]: road[field].append(area_name)
AppendIfAbsent(list, area_name) ==
    IF ~InList(area_name, list) THEN Append(list, area_name) ELSE list

\* for area_name, polygon in areas.items(), seen from one road: the road's
\* list after the areas from the k-th on have been processed
RECURSIVE ProcessAreas(_, _, _, _)
ProcessAreas(road_data, list, loaded, k) ==
    IF k > Len(loaded) THEN list
    ELSE ProcessAreas(road_data,
                      IF check_road_in_area(road_data, loaded[k].polygon)
                      THEN AppendIfAbsent(list, loaded[k].name)
                      ELSE list,
                      loaded, k + 1)

\* The road with the fields 'areas' and 'sub_areas' initialised if missing
WithAreaFields(road_data) ==
    [f \in DOMAIN road_data \cup {"areas", "sub_areas"} |->
        IF f \in DOMAIN road_data THEN road_data[f] ELSE <<>>]

add_areas_to_roads(roads, loaded_areas, loaded_sub_areas) ==
    [r \in 1..Len(roads) |->
        LET road_data == WithAreaFields(roads[r])
        IN  [road_data EXCEPT
                !.areas = ProcessAreas(road_data, road_data.areas, loaded_areas, 1),
                !.sub_areas = ProcessAreas(road_data, road_data.sub_areas,
                                           loaded_sub_areas, 1)]]

(* The roads, areas and sub-areas add_areas_to_roads is run on *)

MaxRuns == 2

\* Coordinates of the first road: up to MaxLists of these lists
FewRoadLists ==
    { << <<1, 1>> >>,
      << <<5, 5>>, <<1, 1>> >>,
      << <<2, 1>> >>,
      << <<3, 1>>, <<5, 5>> >> }

\* Coordinates of the roads after the first
OtherRoadCoordinates ==
    { <<>>, << << <<1, 1>>, <<3, 1>> >> >> }

Str_east == <<"e", "a", "s", "t">>

SubAreaChoices ==
    { <<>>,
      <<[name |-> Str_east,
         geometry |-> [type |-> "Polygon", coordinates |-> <<FarRing>>]]>>,
      <<[name |-> Str_east,
         geometry |-> [type |-> "MultiPolygon",
                       coordinates |-> << <<FarRing>> >>]]>> }

\* A road as format_roads.py writes it (no area fields) or as get_roads.py
\* does (both empty); only the fields add_areas_to_roads reads are kept
RoadRecord(k, coords, with_fields) ==
    IF with_fields
    THEN [name |-> RoadKey(k), coordinates |-> coords,
          areas |-> <<>>, sub_areas |-> <<>>]
    ELSE [name |-> RoadKey(k), coordinates |-> coords]

InitAddAreas ==
    /\ pc = "add_areas_to_roads"
    /\ \E n \in 0..MaxLists, with_fields \in BOOLEAN :
           \E first \in [1..n -> FewRoadLists] :
               \/ formatted_roads = <<RoadRecord(1, first, with_fields)>>
               \/ \E other \in OtherRoadCoordinates :
                      formatted_roads = <<RoadRecord(1, first, with_fields),
                                          RoadRecord(2, other, with_fields)>>
    /\ \E names \in AreaNameOrders :
           \E geoms \in [1..Len(names) -> Geometries] :
               areas = AreasOf(names, geoms)
    /\ sub_areas \in SubAreaChoices
    /\ runs = 0
    /\ roads_data = <<>>
    /\ coordinates = <<>>
    /\ found_areas = <<>>
    /\ polygon = <<>>
    /\ in_area = FALSE
    /\ StitchIdle /\ TypeIdle /\ SizeIdle /\ PipIdle /\ UploadIdle

\* One run of add_areas_to_roads on the roads as the last run left them
AddAreasToRoads ==
    /\ pc \in {"add_areas_to_roads", "add_areas_to_roads.returned"}
    /\ runs < MaxRuns
    /\ formatted_roads' = add_areas_to_roads(formatted_roads,
                                             load_all_areas(areas),
                                             load_all_areas(sub_areas))
    /\ runs' = runs + 1
    /\ pc' = "add_areas_to_roads.returned"
    /\ UNCHANGED <<roads_data, sub_areas, stitchVars, typeVars, sizeVars, areaVars, pipVars, uploadVars>>

NextAddAreas == AddAreasToRoads

SpecAddAreas == InitAddAreas /\ [][NextAddAreas]_vars

----------------------------------------------------------------------------
(* Properties of add_areas_to_roads *)

NoDuplicates(list) ==
    \A i, j \in 1..Len(list) : list[i] = list[j] => i = j

AddReturned == pc = "add_areas_to_roads.returned"

\* C11: a run of add_areas_to_roads after the first one, with the same
\* roads, areas and sub-areas, leaves every road's 'areas' and 'sub_areas'
\* lists (the whole dictionary) as they were, and after any number of runs no
\* name occurs more than once in a road's 'areas' or 'sub_areas' list.
C11_SecondRunChangesNothing ==
    /\ [][runs >= 1 => formatted_roads' = formatted_roads]_vars
    /\ [](AddReturned =>
            \A r \in 1..Len(formatted_roads) :
                /\ NoDuplicates(formatted_roads[r].areas)
                /\ NoDuplicates(formatted_roads[r].sub_areas))

\* C11 witness: after two runs the first road is in the areas south and
\* north, in the order of the areas dictionary, and in the sub-area east.
C11_Witness ==
    /\ AddReturned
    /\ runs = 2
    /\ formatted_roads[1].areas = <<Str_south, Str_north>>
    /\ formatted_roads[1].sub_areas = <<Str_east>>

----------------------------------------------------------------------------
(* Further properties of get_areas_for_coordinates *)

\* C12: the list get_areas_for_coordinates returns is in strictly ascending
\* order of area name, hence holds no name twice, whatever the order of the
\* areas dictionary and however many points or rings of an area match.
C12_SortedWithoutDuplicates ==
    AreasReturned =>
        /\ \A i, j \in 1..Len(found_areas) :
               i < j => StrLess(found_areas[i], found_areas[j])
        /\ NoDuplicates(found_areas)

\* C12 witness: the dictionary holds south before north, two lists of the
\* road have a point in both rings of south and in north, and the result is
\* north, south.
C12_Witness ==
    /\ AreasReturned
    /\ coordinates = << << <<1, 1>> >>, << <<3, 1>>, <<5, 5>> >> >>
    /\ Len(areas) = 2
    /\ areas[1].name = Str_south
    /\ areas[1].geometry = [type |-> "MultiPolygon",
                            coordinates |-> << <<SquareRing>>, <<FarRing>> >>]
    /\ areas[2].geometry = [type |-> "Polygon", coordinates |-> <<TriangleRing>>]
    /\ found_areas = <<Str_north, Str_south>>

----------------------------------------------------------------------------
(* The library path against the ray-casting path *)

\* Every ring of a geometry
RingsOf(geometry) ==
    IF geometry.type = "Polygon"
    THEN {geometry.coordinates[k] : k \in 1..Len(geometry.coordinates)}
    ELSE IF geometry.type = "MultiPolygon"
    THEN UNION {{geometry.coordinates[p][k] : k \in 1..Len(geometry.coordinates[p])} :
                   p \in 1..Len(geometry.coordinates)}
    ELSE {}

\* No point of the road lies on the boundary of a ring of an area
OffEveryBoundary(coords, area_map) ==
    \A a \in 1..Len(area_map) : \A ring \in RingsOf(area_map[a].geometry) :
        ~SomePointOnBoundary(coords, ring)

NamesIn(list) == {list[k] : k \in 1..Len(list)}

\* C13: for the same road coordinates and the same named area geometries,
\* with no road point on a polygon boundary, load_area_geojson with
\* add_areas_to_roads and get_areas_for_coordinates assign the road the same
\* area names (compared here as sets: add_areas_to_roads lists them in the
\* order of the areas dictionary, get_areas_for_coordinates sorted).
C13_PathsAssignTheSameAreas ==
    AddReturned =>
        \A r \in 1..Len(formatted_roads) :
            OffEveryBoundary(formatted_roads[r].coordinates, areas) =>
                NamesIn(formatted_roads[r].areas)
                    = NamesIn(get_areas_for_coordinates(
                                  formatted_roads[r].coordinates, areas))

\* The state that refutes C13: the road's point (1, 1) is inside the square
\* of the only area, a MultiPolygon, which load_area_geojson does not load;
\* add_areas_to_roads leaves 'areas' empty, get_areas_for_coordinates names it.
MultiPolygonNotLoaded ==
    /\ AddReturned
    /\ Len(formatted_roads) = 1
    /\ formatted_roads[1].coordinates = << << <<1, 1>> >> >>
    /\ areas = <<[name |-> Str_north,
                  geometry |-> [type |-> "MultiPolygon",
                                coordinates |-> << <<SquareRing>> >>]]>>
    /\ formatted_roads[1].areas = <<>>
    /\ get_areas_for_coordinates(formatted_roads[1].coordinates, areas) = <<Str_north>>

\* With areas of type Polygon only and no road point on a boundary, the two
\* paths assign the same names.
PolygonPathsAgree ==
    AddReturned =>
        \A r \in 1..Len(formatted_roads) :
            (/\ OffEveryBoundary(formatted_roads[r].coordinates, areas)
             /\ \A a \in 1..Len(areas) : areas[a].geometry.type # "MultiPolygon") =>
                NamesIn(formatted_roads[r].areas)
                    = NamesIn(get_areas_for_coordinates(
                                  formatted_roads[r].coordinates, areas))

\* The result for a Polygon area made of the k-th constituent of a
\* MultiPolygon geometry
AsPolygon(geometry, k) ==
    [type |-> "Polygon", coordinates |-> geometry.coordinates[k]]

ReportedAlone(coords, geometry) ==
    get_areas_for_coordinates(coords, <<[name |-> Str_north, geometry |-> geometry]>>)
        = <<Str_north>>

MultiPolygonAreas == {a \in 1..Len(areas) : areas[a].geometry.type = "MultiPolygon"}

\* C14: get_areas_for_coordinates reports a MultiPolygon area exactly when it
\* would report the Polygon made of one of its constituents (and, the road
\* having no point on a boundary, exactly when a road point is inside the
\* ring of a constituent); a MultiPolygon of one constituent gives the result
\* of the Polygon with that ring.
C14_MultiPolygonIsDisjunction ==
    AreasReturned =>
        \A a \in MultiPolygonAreas :
            LET geometry == areas[a].geometry
                count == Len(geometry.coordinates)
            IN  /\ Reported(a) <=>
                       \E k \in 1..count :
                           ReportedAlone(coordinates, AsPolygon(geometry, k))
                /\ count = 1 =>
                       (Reported(a) <=> ReportedAlone(coordinates, AsPolygon(geometry, 1)))
                /\ OffEveryBoundary(coordinates, areas) =>
                       (Reported(a) <=>
                            \E k \in 1..count :
                                SomePointInside(coordinates, geometry.coordinates[k][1]))

\* C14 witness: the road's only point in an area, (3, 1), is inside the
\* second constituent of the MultiPolygon area, which is reported.
C14_Witness ==
    /\ AreasReturned
    /\ coordinates = << << <<3, 1>>, <<5, 5>> >> >>
    /\ Len(areas) = 1
    /\ areas[1].geometry = [type |-> "MultiPolygon",
                            coordinates |-> << <<SquareRing>>, <<FarRing>> >>]
    /\ ~ReportedAlone(coordinates, AsPolygon(areas[1].geometry, 1))
    /\ Reported(1)

----------------------------------------------------------------------------
(* point_in_polygon on axis-aligned rectangles *)

\* Corner coordinates run over 0..MaxCoord, points over -1..MaxCoord + 1
MaxCoord == 3

\* The ring (x0,y0), (x1,y0), (x1,y1), (x0,y1), open or closed by repeating
\* its first corner
Rectangle(x0, y0, x1, y1, closed) ==
    << <<x0, y0>>, <<x1, y0>>, <<x1, y1>>, <<x0, y1>> >>
        \o (IF closed THEN << <<x0, y0>> >> ELSE <<>>)

InitPip ==
    /\ pc = "point_in_polygon"
    /\ \E x0, y0, x1, y1 \in 0..MaxCoord, closed \in BOOLEAN :
           /\ x0 < x1 /\ y0 < y1
           /\ pip_polygon = Rectangle(x0, y0, x1, y1, closed)
    /\ pip_point \in (-1..MaxCoord + 1) \X (-1..MaxCoord + 1)
    /\ pip_inside = FALSE
    /\ StitchIdle /\ TypeIdle /\ GroupIdle /\ SizeIdle /\ AreaIdle /\ AddIdle /\ UploadIdle

PointInPolygon ==
    /\ pc = "point_in_polygon"
    /\ pip_inside' = point_in_polygon(pip_point, pip_polygon)
    /\ pc' = "point_in_polygon.returned"
    /\ UNCHANGED <<pip_point, pip_polygon, stitchVars, typeVars, groupVars,
                   sizeVars, areaVars, addVars, uploadVars>>

NextPip == PointInPolygon

SpecPip == InitPip /\ [][NextPip]_vars

PipReturned == pc = "point_in_polygon.returned"

\* The corners (x0, y0) and (x1, y1) of the rectangle
LowCorner == pip_polygon[1]
HighCorner == pip_polygon[3]

OnRectangleBoundary ==
    \/ /\ pip_point[1] \in {LowCorner[1], HighCorner[1]}
       /\ LowCorner[2] <= pip_point[2] /\ pip_point[2] <= HighCorner[2]
    \/ /\ pip_point[2] \in {LowCorner[2], HighCorner[2]}
       /\ LowCorner[1] <= pip_point[1] /\ pip_point[1] <= HighCorner[1]

\* C15: for a rectangular ring with corners (x0,y0), (x1,y0), (x1,y1),
\* (x0,y1), x0 < x1, y0 < y1, and a point not on the rectangle's boundary,
\* point_in_polygon returns true exactly when x0 < px < x1 and y0 < py < y1.
\* For the unit square, here in units of one half, (0.5, 0.5) is inside and
\* (2, 2) is outside.
C15_RectangleContainment ==
    PipReturned =>
        /\ ~OnRectangleBoundary =>
               (pip_inside <=>
                    /\ LowCorner[1] < pip_point[1] /\ pip_point[1] < HighCorner[1]
                    /\ LowCorner[2] < pip_point[2] /\ pip_point[2] < HighCorner[2])
        /\ (LowCorner = <<0, 0>> /\ HighCorner = <<2, 2>> /\ pip_point = <<1, 1>>)
               => pip_inside
        /\ (LowCorner = <<0, 0>> /\ HighCorner = <<2, 2>> /\ pip_point = <<4, 4>>)
               => ~pip_inside

\* C15 witness: the point (0.5, 0.5) was found inside the open unit square.
C15_Witness ==
    /\ PipReturned
    /\ pip_polygon = Rectangle(0, 0, 2, 2, FALSE)
    /\ pip_point = <<1, 1>>
    /\ pip_inside

----------------------------------------------------------------------------
(* The stitcher on segments of a single point *)

ShortSegmentRecords ==
    { [coordinates |-> << <<0, 0>> >>, length |-> 0],
      [coordinates |-> << <<1, 1>> >>] }

\* The segments of a single point together with the two-point segments that
\* carry a length
ShortOrLongRecords ==
    ShortSegmentRecords
        \cup {s \in SegmentRecords : "length" \in DOMAIN s /\ Len(s.coordinates) = 2}

InitShort ==
    /\ pc = "combine_segments"
    /\ \E n \in 1..MaxSegs : segments \in [1..n -> ShortOrLongRecords]
    /\ \E k \in 1..Len(segments) : segments[k] \in ShortSegmentRecords
    /\ segment_list = <<>>
    /\ total_length = 0
    /\ used_indices = {}
    /\ branch = "none"
    /\ iterations = 0
    /\ TypeIdle /\ GroupIdle /\ SizeIdle /\ AreaIdle /\ AddIdle /\ PipIdle /\ UploadIdle

SpecShort == InitShort /\ [][NextStitch]_vars

\* C16: a group holding a segment of fewer than 2 coordinate points is
\* rejected with an error, whatever its size: combine_segments never returns
\* for such a group, and no returned list has fewer than 2 points.
C16_ShortSegmentsRejected ==
    Returned =>
        /\ \A k \in 1..Len(segments) : Len(segments[k].coordinates) >= 2
        /\ \A j \in 1..Len(segment_list) : Len(segment_list[j]) >= 2

\* The state that refutes C16: the one-point segment [(1, 1)] was stitched
\* after [(0, 0), (1, 0)] and returned as a list of its own.
OnePointListReturned ==
    /\ Returned
    /\ Len(segments) = 2
    /\ segments[1].coordinates = << <<0, 0>>, <<1, 0>> >>
    /\ segment_list = << << <<0, 0>>, <<1, 0>> >>, << <<1, 1>> >> >>

----------------------------------------------------------------------------
(* Malformed areas *)

DistinctVertices(ring) == Cardinality({ring[k] : k \in 1..Len(ring)})

\* The geometry is a Polygon or a MultiPolygon whose outer rings have at
\* least 3 distinct vertices
WellFormed(geometry) ==
    /\ geometry.type \in {"Polygon", "MultiPolygon"}
    /\ geometry.type = "Polygon" => DistinctVertices(geometry.coordinates[1]) >= 3
    /\ geometry.type = "MultiPolygon" =>
           \A p \in 1..Len(geometry.coordinates) :
               DistinctVertices(geometry.coordinates[p][1]) >= 3

\* C17: get_areas_for_coordinates signals an error for an area whose geometry
\* type is neither Polygon nor MultiPolygon or whose ring has fewer than 3
\* distinct vertices: it never returns a result for a dictionary that holds
\* such an area.
C17_MalformedAreasRejected ==
    AreasReturned => \A a \in 1..Len(areas) : WellFormed(areas[a].geometry)

\* The state that refutes C17: the only area is a GeometryCollection and the
\* call returned the empty list.
MalformedAreaSkipped ==
    /\ AreasReturned
    /\ Len(coordinates) = 1
    /\ Len(areas) = 1
    /\ areas[1].geometry = [type |-> "GeometryCollection"]
    /\ found_areas = <<>>

----------------------------------------------------------------------------
(* create_district.py: slugify *)

DigitChars == {"0", "1", "2", "3", "4", "5", "6", "7", "8", "9"}
LowerChars == {LowerCase[i] : i \in 1..Len(LowerCase)}
UpperChars == {UpperCase[i] : i \in 1..Len(UpperCase)}

\* [\s_]: of the whitespace characters only the space occurs in the model
IsSpaceOrUnderscore(c) == c \in {" ", "_"}

\* [a-z0-9\-]
IsSlugChar(c) == c \in LowerChars \cup DigitChars \cup {"-"}

\* re.sub(r'[\s_]+', '-', text)
RECURSIVE ReplaceSpaceRuns(_)
ReplaceSpaceRuns(s) ==
    IF s = <<>> THEN <<>>
    ELSE IF IsSpaceOrUnderscore(Head(s))
    THEN IF Len(s) >= 2 /\ IsSpaceOrUnderscore(s[2])
         THEN ReplaceSpaceRuns(Tail(s))
         ELSE <<"-">> \o ReplaceSpaceRuns(Tail(s))
    ELSE <<Head(s)>> \o ReplaceSpaceRuns(Tail(s))

\* re.sub(r'[^a-z0-9\-]', '', text)
RemoveNonSlugChars(s) == SelectSeq(s, IsSlugChar)

\* re.sub(r'-+', '-', text)
RECURSIVE CollapseHyphens(_)
CollapseHyphens(s) ==
    IF s = <<>> THEN <<>>
    ELSE IF Head(s) = "-" /\ Len(s) >= 2 /\ s[2] = "-"
    THEN CollapseHyphens(Tail(s))
    ELSE <<Head(s)>> \o CollapseHyphens(Tail(s))

\* text.strip('-')
RECURSIVE StripHyphens(_)
StripHyphens(s) ==
    IF s = <<>> THEN <<>>
    ELSE IF Head(s) = "-" THEN StripHyphens(Tail(s))
    ELSE IF s[Len(s)] = "-" THEN StripHyphens(SubSeq(s, 1, Len(s) - 1))
    ELSE s

slugify(text) ==
    StripHyphens(CollapseHyphens(RemoveNonSlugChars(ReplaceSpaceRuns(lower(text)))))

\* str.islower(): some cased character, and no upper-case one
islower(s) ==
    /\ \E i \in 1..Len(s) : s[i] \in LowerChars
    /\ \A i \in 1..Len(s) : s[i] \notin UpperChars

\* s[:n]
Truncate(s, n) == IF Len(s) <= n THEN s ELSE SubSeq(s, 1, n)

----------------------------------------------------------------------------
(* create_district_upload.py: create_area_object and create_road_object *)

\* A ValueError with its message; None is no error
Raised(message) == <<message>>

\* validate_geojson_polygon on a Polygon or MultiPolygon object
validate_geojson_polygon(geojson_obj) ==
    IF "type" \notin DOMAIN geojson_obj
    THEN Raised("GeoJSON must have a 'type' field")
    ELSE IF geojson_obj.type \notin {"Polygon", "MultiPolygon"}
    THEN Raised("GeoJSON type must be 'Polygon' or 'MultiPolygon'")
    ELSE IF "coordinates" \notin DOMAIN geojson_obj
    THEN Raised("GeoJSON must have a 'coordinates' field")
    ELSE IF /\ geojson_obj.type = "Polygon"
            /\ \E k \in 1..Len(geojson_obj.coordinates) :
                   Len(geojson_obj.coordinates[k]) < 4
    THEN Raised("Polygon ring must have at least 4 coordinates")
    ELSE IF /\ geojson_obj.type = "Polygon"
            /\ \E k \in 1..Len(geojson_obj.coordinates) :
                   LET ring == geojson_obj.coordinates[k]
                   IN  ring[1] # ring[Len(ring)]
    THEN Raised("Polygon ring must be closed")
    ELSE None

\* create_area_object: the arguments are the fields of args, an argument
\* that is None being absent. The result is the object, or the error raised.
create_area_object(args) ==
    IF args.name = <<>>
    THEN [error |-> Raised("Area name cannot be empty")]
    ELSE IF args.sub_area \notin {0, 1}
    THEN [error |-> Raised("sub_area must be 0 or 1")]
    ELSE IF /\ "area_border_coordinates" \in DOMAIN args
            /\ validate_geojson_polygon(args.area_border_coordinates) # None
    THEN [error |-> validate_geojson_polygon(args.area_border_coordinates)]
    ELSE [error |-> None,
          object |-> [f \in {"temp_id", "name", "status", "sub_area"}
                             \cup (DOMAIN args \cap {"area_border_coordinates",
                                                     "created_by"})
                        |-> args[f]]]

\* size in ['small', 'medium', 'large']
SizeAccepted(size) == size \in {"small", "medium", "large"}

\* create_road_object, with the same conventions; the argument road_type
\* becomes the field 'type'
create_road_object(args) ==
    IF args.key = <<>>
    THEN [error |-> Raised("Road key cannot be empty")]
    ELSE IF args.name = <<>>
    THEN [error |-> Raised("Road name cannot be empty")]
    ELSE IF ~islower(args.key)
    THEN [error |-> Raised("Road key must be lowercase")]
    ELSE IF "length" \in DOMAIN args /\ args.length < 0
    THEN [error |-> Raised("Road length must be a non-negative number")]
    ELSE IF "size" \in DOMAIN args /\ ~SizeAccepted(args.size)
    THEN [error |-> Raised("Road size must be 'small', 'medium', or 'large'")]
    ELSE IF args.sub_areas \notin {0, 1}
    THEN [error |-> Raised("sub_areas must be 0 or 1")]
    ELSE [error |-> None,
          object |-> [f \in {"temp_id", "key", "name", "sub_areas"}
                             \cup (DOMAIN args \cap {"length", "size", "segments",
                                                     "areas", "coordinates"})
                             \cup (IF "road_type" \in DOMAIN args
                                   THEN {"type"} ELSE {})
                        |-> IF f = "type" THEN args.road_type ELSE args[f]]]

----------------------------------------------------------------------------
(* create_district_complete.py: the formatted roads and the loaded areas   *)
(* converted into the objects of the upload payload                        *)

Str_road == <<"r", "o", "a", "d">>
Str_area == <<"a", "r", "e", "a">>
Str_subarea == <<"s", "u", "b", "a", "r", "e", "a">>

\* f"{prefix}-{idx}"
TempId(prefix, idx) == prefix \o <<"-", Digits[idx]>>

\* road_key[:255] and road_name[:255]
MaxKeyLength == 255

\* Variant of MapSize: the label is passed on as it is
MapSize_Unmapped(size) == size

\* if size == 'big': size = 'large'
MapSize(size) == IF size = "big" THEN "large" ELSE size

\* The call of create_road_object for the idx-th road of the dictionary
RoadArguments(idx, road_data, district_key) ==
    LET road_key == district_key \o <<"-">> \o slugify(road_data.name)
        given == DOMAIN road_data \cap {"length", "coordinates"}
        typed == IF "road_type" \in DOMAIN road_data /\ road_data.road_type # None
                 THEN {"road_type"} ELSE {}
        sized == DOMAIN road_data \cap {"size"}
    IN  [f \in {"temp_id", "key", "name", "areas", "sub_areas"}
               \cup given \cup typed \cup sized |->
            CASE f = "temp_id" -> TempId(Str_road, idx)
              [] f = "key" -> Truncate(road_key, MaxKeyLength)
              [] f = "name" -> Truncate(road_data.name, MaxKeyLength)
              [] f = "size" -> MapSize(road_data.size)
              [] f = "areas" -> IF "areas" \in DOMAIN road_data
                                THEN road_data.areas ELSE <<>>
              [] f = "sub_areas" -> IF /\ "sub_areas" \in DOMAIN road_data
                                       /\ Len(road_data.sub_areas) > 0
                                    THEN 1 ELSE 0
              [] OTHER -> road_data[f]]

\* The loop of convert_formatted_roads_to_road_objects from the idx-th road
\* on: the list of road objects, or the error of the first call that raises
RECURSIVE ConvertRoads(_, _, _, _)
ConvertRoads(roads, district_key, idx, objects) ==
    IF idx > Len(roads) THEN [error |-> None, objects |-> objects]
    ELSE LET road_obj == create_road_object(
                             RoadArguments(idx, roads[idx], district_key))
         IN  IF road_obj.error # None THEN [error |-> road_obj.error]
             ELSE ConvertRoads(roads, district_key, idx + 1,
                               Append(objects, road_obj.object))

convert_formatted_roads_to_road_objects(roads, district_key) ==
    ConvertRoads(roads, district_key, 1, <<>>)

\* list(polygon.exterior.coords): the exterior ring of a polygon is closed
ExteriorCoords(ring) ==
    IF ring[1] = ring[Len(ring)] THEN ring ELSE Append(ring, ring[1])

\* The call of create_area_object for the idx-th area of the dictionary
AreaArguments(idx, area, is_sub_area, inputs) ==
    LET base == [temp_id |-> TempId(IF is_sub_area THEN Str_subarea ELSE Str_area,
                                    idx),
                 name |-> area.name,
                 area_border_coordinates |->
                     [type |-> "Polygon",
                      coordinates |-> <<ExteriorCoords(area.polygon)>>],
                 status |-> "active",
                 sub_area |-> IF is_sub_area THEN 1 ELSE 0]
    IN  IF "creator_id" \in DOMAIN inputs
        THEN base @@ [created_by |-> inputs.creator_id]
        ELSE base

RECURSIVE ConvertAreas(_, _, _, _, _)
ConvertAreas(areas_dict, is_sub_area, inputs, idx, objects) ==
    IF idx > Len(areas_dict) THEN [error |-> None, objects |-> objects]
    ELSE LET area_obj == create_area_object(
                             AreaArguments(idx, areas_dict[idx], is_sub_area, inputs))
         IN  IF area_obj.error # None THEN [error |-> area_obj.error]
             ELSE ConvertAreas(areas_dict, is_sub_area, inputs, idx + 1,
                               Append(objects, area_obj.object))

convert_areas_to_area_objects(areas_dict, is_sub_area, inputs) ==
    ConvertAreas(areas_dict, is_sub_area, inputs, 1, <<>>)

(* The run of create_district_complete: its raw roads, area files and user *)
(* inputs                                                                  *)

Str_47 == <<"4", "7">>
Str_nh == <<"n", "h">>
Str_7 == <<"7">>

\* Names of the raw segments: three roads, a road written a second time
\* in lower case, a name that is dropped, and a name without a letter
UploadNames ==
    {StrName(Str_OakAvenue),
     StrName(lower(Str_OakAvenue)),
     StrName(Str_unnamed),
     StrName(Str_47),
     ListName(<<Str_Highway1>>),
     ListName(<<Str_Broadway, Str_StateRoute47>>)}

\* The areas folder: empty, one Polygon file, a Polygon and a MultiPolygon
\* file. The roads run along y = 0, inside the outer ring and on the edge of
\* the square.
UploadAreaChoices ==
    { <<>>,
      <<[name |-> Str_north,
         geometry |-> [type |-> "Polygon", coordinates |-> <<OuterRing>>]]>>,
      <<[name |-> Str_south,
         geometry |-> [type |-> "MultiPolygon",
                       coordinates |-> << <<OuterRing>> >>]],
        [name |-> Str_north,
         geometry |-> [type |-> "Polygon", coordinates |-> <<OuterRing>>]]>> }

UploadSubAreaChoices ==
    { <<>>,
      <<[name |-> Str_east,
         geometry |-> [type |-> "Polygon", coordinates |-> <<OpenSquareRing>>]]>> }

\* --creator-id of the usage example
CreatorId == 42

\* The district key and, if given, the creator id
UserInputs ==
    { [key |-> Str_nh], [key |-> Str_7],
      [key |-> Str_nh, creator_id |-> CreatorId] }

InitUpload ==
    /\ pc = "main.step3"
    /\ \E n \in 0..MaxRawSegs, lengthless \in LengthlessSets :
           \E choices \in [1..n -> UploadNames] :
               roads_data = RawRoadsData(choices, lengthless)
    /\ areas \in UploadAreaChoices
    /\ sub_areas \in UploadSubAreaChoices
    /\ user_inputs \in UserInputs
    /\ formatted_roads = <<>>
    /\ runs = 0
    /\ coordinates = <<>>
    /\ found_areas = <<>>
    /\ polygon = <<>>
    /\ in_area = FALSE
    /\ area_objects = <<>>
    /\ road_objects = <<>>
    /\ error = None
    /\ StitchIdle /\ TypeIdle /\ SizeIdle /\ PipIdle

\* main, step 3: group_and_combine_roads(roads_raw, district_id=None)
MainFormatRoads ==
    /\ pc = "main.step3"
    /\ formatted_roads' = get_roads_group_and_combine_roads(roads_data)
    /\ pc' = "main.step4"
    /\ UNCHANGED <<roads_data, stitchVars, typeVars, sizeVars, areaVars, addVars, pipVars, uploadVars>>

\* The roads with empty 'areas' and 'sub_areas' lists
WithEmptyAreaLists(roads) ==
    [r \in 1..Len(roads) |->
        [f \in DOMAIN roads[r] \cup {"areas", "sub_areas"} |->
            IF f \in {"areas", "sub_areas"} THEN <<>> ELSE roads[r][f]]]

\* main, steps 4 and 5: the areas and sub-areas are loaded and assigned to
\* the roads
MainAssignAreas ==
    /\ pc = "main.step4"
    /\ LET loaded_areas == load_all_areas(areas)
           loaded_sub_areas == load_all_areas(sub_areas)
       IN  formatted_roads' =
               IF loaded_areas # <<>> \/ loaded_sub_areas # <<>>
               THEN add_areas_to_roads(formatted_roads, loaded_areas,
                                       loaded_sub_areas)
               ELSE WithEmptyAreaLists(formatted_roads)
    /\ pc' = "main.step6"
    /\ UNCHANGED <<roads_data, stitchVars, typeVars, sizeVars, areaVars, addVars, pipVars, uploadVars>>

\* main, step 6: the area objects of the areas, then of the sub-areas, then
\* the road objects; a ValueError ends the run
MainCreatePayload ==
    /\ pc = "main.step6"
    /\ LET area_part == convert_areas_to_area_objects(load_all_areas(areas),
                                                      FALSE, user_inputs)
           sub_area_part == convert_areas_to_area_objects(load_all_areas(sub_areas),
                                                          TRUE, user_inputs)
           road_part == convert_formatted_roads_to_road_objects(formatted_roads,
                                                                user_inputs.key)
       IN  IF area_part.error # None
           THEN /\ error' = area_part.error
                /\ pc' = "main.raised"
                /\ UNCHANGED <<area_objects, road_objects>>
           ELSE IF sub_area_part.error # None
           THEN /\ error' = sub_area_part.error
                /\ area_objects' = area_part.objects
                /\ pc' = "main.raised"
                /\ UNCHANGED road_objects
           ELSE IF road_part.error # None
           THEN /\ error' = road_part.error
                /\ area_objects' = area_part.objects \o sub_area_part.objects
                /\ pc' = "main.raised"
                /\ UNCHANGED road_objects
           ELSE /\ area_objects' = area_part.objects \o sub_area_part.objects
                /\ road_objects' = road_part.objects
                /\ pc' = "main.returned"
                /\ UNCHANGED error
    /\ UNCHANGED <<user_inputs, groupVars, stitchVars, typeVars, sizeVars, areaVars, addVars, pipVars>>

NextUpload == MainFormatRoads \/ MainAssignAreas \/ MainCreatePayload

SpecUpload == InitUpload /\ [][NextUpload]_vars

----------------------------------------------------------------------------
(* Claims about the upload payload *)

PayloadReturned == pc = "main.returned"

SizeError == Raised("Road size must be 'small', 'medium', or 'large'")

\* Some road object of the payload has the given size
SomeRoadObjectSized(size) ==
    \E k \in 1..Len(road_objects) : road_objects[k].size = size

\* C18: every size label of calculate_size_categories is accepted by the
\* upload stage. The run of create_district_complete never ends with the size
\* error of create_road_object, and in the payload the k-th road object has
\* the size of the k-th formatted road, 'big' having become 'large' and
\* 'small' and 'medium' being unchanged, so that it is one of 'small',
\* 'medium', 'large'.
C18_SizeLabelsAccepted ==
    /\ error # SizeError
    /\ PayloadReturned =>
           /\ Len(road_objects) = Len(formatted_roads)
           /\ \A k \in 1..Len(road_objects) :
                  /\ formatted_roads[k].size \in {"small", "medium", "big"}
                  /\ road_objects[k].size \in {"small", "medium", "large"}
                  /\ formatted_roads[k].size = "big" <=>
                         road_objects[k].size = "large"
                  /\ formatted_roads[k].size # "big" =>
                         road_objects[k].size = formatted_roads[k].size

\* A payload with a small, a medium and a large road, the large one made
\* from a road labelled 'big'
C18_Witness ==
    /\ PayloadReturned
    /\ SomeRoadObjectSized("small")
    /\ SomeRoadObjectSized("medium")
    /\ \E k \in 1..Len(road_objects) :
           formatted_roads[k].size = "big" /\ road_objects[k].size = "large"

\* Some area object of the payload has the given temp_id
IsAreaTempId(entry) ==
    \E a \in 1..Len(area_objects) : area_objects[a].temp_id = entry

\* C19: in the payload, every entry of the 'areas' list of every road object
\* is the temp_id of some area object of the same payload.
C19_AreasHoldTempIds ==
    PayloadReturned =>
        \A k \in 1..Len(road_objects) :
            \A j \in 1..Len(road_objects[k].areas) :
                IsAreaTempId(road_objects[k].areas[j])

\* The 'areas' list of a road object holds the name of an area whose object
\* has another temp_id
AreaNameInPlaceOfTempId ==
    /\ PayloadReturned
    /\ \E k \in 1..Len(road_objects) :
           \E j \in 1..Len(road_objects[k].areas) :
               \E a \in 1..Len(area_objects) :
                   /\ area_objects[a].name = road_objects[k].areas[j]
                   /\ area_objects[a].temp_id # road_objects[k].areas[j]
                   /\ ~IsAreaTempId(road_objects[k].areas[j])

\* A run ends with an error other than the size error of create_road_object
OtherErrorRaised == pc = "main.raised" /\ error # None /\ error # SizeError

----------------------------------------------------------------------------
(* Claims about one iteration of the stitching loop *)

\* The last point of the last list: the anchor of the next iteration
Anchor == segment_list[Len(segment_list)][Len(segment_list[Len(segment_list)])]

\* The distance from the anchor to the first and to the last point of the
\* idx-th segment
AnchorToFirst(idx) == calculate_distance(Anchor, segments[idx].coordinates[1])
AnchorToLast(idx) ==
    calculate_distance(Anchor,
                       segments[idx].coordinates[Len(segments[idx].coordinates)])

\* One iteration of the loop appends the idx-th segment: it was unused, the
\* lists so far are kept, and the new last list is the segment's coordinates,
\* reversed exactly when its last point is strictly closer to the anchor
\* than its first point
AppendsOriented(idx) ==
    /\ idx \notin used_indices
    /\ used_indices' = used_indices \cup {idx}
    /\ segment_list' =
           Append(segment_list,
                  IF AnchorToLast(idx) < AnchorToFirst(idx)
                  THEN Reverse(segments[idx].coordinates)
                  ELSE segments[idx].coordinates)

\* The first point of the list just appended is at the least distance from
\* the anchor among both endpoints of all segments unused before the step
FirstPointIsNearest ==
    LET appended == segment_list'[Len(segment_list')]
        min_distance == calculate_distance(Anchor, appended[1])
    IN  \A j \in (1..Len(segments)) \ used_indices :
            /\ min_distance <= AnchorToFirst(j)
            /\ min_distance <= AnchorToLast(j)

\* C20: every iteration of the stitching loop takes as anchor the last point
\* of the last list, and appends an unused segment as a new last list,
\* reversed exactly when its last point is strictly closer to the anchor than
\* its first point; the first point of the appended list is the endpoint at
\* the least distance from the anchor over both endpoints of all unused
\* segments.
C20_NearestEndpointIsAppended ==
    [][(pc = "while" /\ iterations' = iterations + 1) =>
           /\ branch' = "append"
           /\ \E idx \in 1..Len(segments) : AppendsOriented(idx)
           /\ FirstPointIsNearest]_vars

\* After two iterations the last list is a segment reversed, its first point
\* away from the anchor it was chosen for
C20_Witness ==
    /\ iterations = 2
    /\ branch = "append"
    /\ Len(segment_list) = 3
    /\ \E idx \in used_indices :
           /\ segment_list[3] = Reverse(segments[idx].coordinates)
           /\ segment_list[3] # segments[idx].coordinates
    /\ segment_list[3][1] # segment_list[2][Len(segment_list[2])]

\* The least of the two distances from the anchor to the endpoints of the
\* idx-th segment
AnchorToNearerEnd(idx) == Min(AnchorToFirst(idx), AnchorToLast(idx))

\* The step marks the idx-th segment used and appends it, in the given
\* orientation, as the new last list
Chooses(idx, reversed_flag) ==
    /\ idx \notin used_indices
    /\ used_indices' = used_indices \cup {idx}
    /\ segment_list' = Append(segment_list, Oriented(segments, idx, reversed_flag))

\* C21: among the unused segments with an endpoint at the least distance from
\* the anchor, find_closest_segment picks the one with the lowest index, so
\* every unused segment before the chosen one is strictly farther; and a
\* chosen segment whose two endpoints are equidistant goes in forward.
C21_FirstEncounteredWins ==
    [][(pc = "while" /\ iterations' = iterations + 1) =>
           \E idx \in 1..Len(segments), reversed_flag \in BOOLEAN :
               /\ Chooses(idx, reversed_flag)
               /\ \A j \in (1..Len(segments)) \ used_indices :
                      /\ AnchorToNearerEnd(idx) <= AnchorToNearerEnd(j)
                      /\ j < idx => AnchorToNearerEnd(idx) < AnchorToNearerEnd(j)
               /\ AnchorToFirst(idx) = AnchorToLast(idx) => ~reversed_flag]_vars

\* The first iteration has chosen the second segment, forward, although the
\* third has an endpoint at the same distance from the anchor, and although
\* the second segment's last point is at that distance too
C21_Witness ==
    /\ iterations = 1
    /\ branch = "append"
    /\ Len(segments) = 3
    /\ used_indices = {1, 2}
    /\ segment_list[2] = segments[2].coordinates
    /\ LET anchor == segment_list[1][Len(segment_list[1])]
           d(p) == calculate_distance(anchor, p)
           second == segments[2].coordinates
           third == segments[3].coordinates
       IN  /\ d(second[1]) = d(second[Len(second)])
           /\ second[1] # second[Len(second)]
           /\ d(second[1]) > 0
           /\ d(third[1]) = d(second[1]) \/ d(third[Len(third)]) = d(second[1])

\* The points of the coordinate lists read in order
RECURSIVE Flatten(_)
Flatten(lists) == IF lists = <<>> THEN <<>> ELSE Head(lists) \o Flatten(Tail(lists))

\* The last point of the k-th list is the first point of the next one
JoinDoubled(lists, k) == lists[k][Len(lists[k])] = lists[k + 1][1]

----------------------------------------------------------------------------
(* Termination of the stitching loop *)

\* combine_segments under the scheduling of a sequential program: a step
\* that can be taken is taken
SpecStitchFair == SpecStitch /\ WF_vars(NextStitch)

\* C23: for a group of n >= 2 segments the loop of combine_segments ends
\* after exactly n - 1 iterations, each of which appends a segment found from
\* the end anchor; the prepend branch and the break are never taken, and the
\* first returned list is the first input segment, forward.
C23_LoopRunsOncePerRemainingSegment ==
    /\ [](/\ branch \notin {"prepend", "break"}
          /\ pc = "while" =>
                 /\ iterations = Cardinality(used_indices) - 1
                 /\ iterations <= Len(segments) - 1
                 /\ iterations > 0 => branch = "append"
          /\ (Returned /\ Len(segments) >= 2) =>
                 /\ iterations = Len(segments) - 1
                 /\ branch = "append"
                 /\ Len(segment_list) = Len(segments)
                 /\ segment_list[1] = segments[1].coordinates)
    /\ <>Returned

\* A group of three segments was returned after two iterations, its first
\* segment having an unused segment's endpoint at distance 0 from its FIRST
\* point and none at its last point: the best case for a prepend
C23_Witness ==
    /\ Returned
    /\ Len(segments) = 3
    /\ iterations = 2
    /\ branch = "append"
    /\ segment_list[1] = segments[1].coordinates
    /\ segments[2].coordinates[Len(segments[2].coordinates)] = segments[1].coordinates[1]
    /\ \A j \in {2, 3} :
           /\ segments[j].coordinates[1] # segment_list[1][Len(segment_list[1])]
           /\ segments[j].coordinates[Len(segments[j].coordinates)]
                  # segment_list[1][Len(segment_list[1])]

----------------------------------------------------------------------------
(* The grouping as a partition of the kept segments *)

\* The normalized name of the i-th raw segment
NormalizedName(i) == normalize_road_name(GetName(roads_data[i]))

\* The i-th raw segment is not dropped: its normalized name is not empty,
\* not 'Unknown' and not 'unnamed' in any casing
Kept(i) ==
    /\ NormalizedName(i) # <<>>
    /\ NormalizedName(i) # Str_Unknown
    /\ ~EqualsIgnoringCase(NormalizedName(i), Str_unnamed)

KeptSegments == {i \in 1..Len(roads_data) : Kept(i)}

\* The segment count a road record states: 'segment_count' in format_roads.py,
\* 'segments' in get_roads.py
SegmentCountOf(road) ==
    IF "segment_count" \in DOMAIN road THEN road.segment_count ELSE road.segments

\* C24: group_and_combine_roads partitions the kept segments by normalized
\* name. Every kept segment is in exactly one road, the one keyed by its
\* normalized name; no two roads have the same key; each road's segment count
\* is the number of raw segments with that normalized name; and the segment
\* counts add up to the number of kept segments.
C24_PartitionByNormalizedName ==
    GroupReturned =>
        /\ \A i \in KeptSegments :
               \A k \in 1..Len(formatted_roads) :
                   InRoad(i, k) <=> KeyAt(formatted_roads, k) = NormalizedName(i)
        /\ \A i \in KeptSegments :
               Cardinality({k \in 1..Len(formatted_roads) : InRoad(i, k)}) = 1
        /\ \A k, l \in 1..Len(formatted_roads) :
               KeyAt(formatted_roads, k) = KeyAt(formatted_roads, l) => k = l
        /\ \A k \in 1..Len(formatted_roads) :
               /\ SegmentCountOf(formatted_roads[k]) =
                      Cardinality({i \in 1..Len(roads_data) :
                                      NormalizedName(i) = KeyAt(formatted_roads, k)})
               /\ SegmentCountOf(formatted_roads[k]) =
                      Len(formatted_roads[k].coordinates)
               /\ SegmentCountOf(formatted_roads[k]) >= 1
        /\ SumSeq([k \in 1..Len(formatted_roads) |->
                      SegmentCountOf(formatted_roads[k])])
               = Cardinality(KeptSegments)

\* Of three raw segments the first and the third went into one road of two
\* segments, their names being written differently ("Oak Avenue" and
\* ['', 'Oak Avenue']), and the second one was dropped
C24_Witness ==
    /\ GroupReturned
    /\ Len(roads_data) = 3
    /\ KeptSegments = {1, 3}
    /\ GetName(roads_data[1]) # GetName(roads_data[3])
    /\ Len(formatted_roads) = 1
    /\ SegmentCountOf(formatted_roads[1]) = 2
    /\ InRoad(1, 1) /\ InRoad(3, 1)

----------------------------------------------------------------------------
(* point_in_polygon on rings written with and without the closing vertex *)

\* Vertices of the rings: the corners and the centre of a square, and a
\* point above it
RingVertices == {<<0, 0>>, <<2, 0>>, <<2, 2>>, <<0, 2>>, <<1, 1>>, <<1, 3>>}

\* Numbers of vertices of a ring written without the closing vertex
RingLengths == {3, 4}

\* The points tested: the vertices, points on edges, inside and outside
ProbePoints == (-1..3) \X (-1..4)

\* The ring with its first vertex repeated as the last one
Closed(ring) == Append(ring, ring[1])

InitRing ==
    /\ pc = "point_in_polygon"
    /\ \E n \in RingLengths, closed \in BOOLEAN :
           \E ring \in [1..n -> RingVertices] :
               pip_polygon = IF closed THEN Closed(ring) ELSE ring
    /\ pip_point \in ProbePoints
    /\ pip_inside = FALSE
    /\ StitchIdle /\ TypeIdle /\ GroupIdle /\ SizeIdle /\ AreaIdle /\ AddIdle /\ UploadIdle

SpecRing == InitRing /\ [][NextPip]_vars

\* The other way of writing the ring: without its last vertex if that
\* repeats the first one, with the first vertex repeated otherwise
OtherWriting(ring) ==
    IF ring[1] = ring[Len(ring)]
    THEN SubSeq(ring, 1, Len(ring) - 1)
    ELSE Closed(ring)

\* C25: point_in_polygon gives the same answer for a ring written without
\* the closing vertex and for the same ring with its first vertex repeated
\* as the last one, whatever the point.
C25_ClosingVertexMakesNoDifference ==
    PipReturned =>
        pip_inside = point_in_polygon(pip_point, OtherWriting(pip_polygon))

\* A point that only the closing edge puts inside: it lies inside a ring of
\* four different vertices written without the closing vertex, and the edges
\* between consecutive written vertices alone would leave it outside
C25_Witness ==
    /\ PipReturned
    /\ pip_inside
    /\ Len(pip_polygon) = 4
    /\ Cardinality({pip_polygon[k] : k \in 1..4}) = 4
    /\ Cardinality({k \in 1..3 :
                       Toggles(pip_point, pip_polygon[k], pip_polygon[k + 1])}) % 2 = 0
    /\ Toggles(pip_point, pip_polygon[4], pip_polygon[1])

----------------------------------------------------------------------------
(* The stitcher on reorderings of a group *)

\* The group with its segments in the order perm
Reordered(segs, perm) == [k \in 1..Len(segs) |-> segs[perm[k]]]

Reorderings == Permutations(1..Len(segments))

\* C26 as stated: for every reordering of the group combine_segments returns
\* the same sequence of coordinate lists and the same total length.
C26_Original_SameLists ==
    Returned =>
        \A perm \in Reorderings :
            LET other == combine_segments(Reordered(segments, perm))
            IN  /\ other.coords = segment_list
                /\ other.length = total_length

\* C26: for every reordering of the group combine_segments returns the same
\* total length and the same segments, each exactly once, forward or
\* reversed; the sequence of lists depends on the order, its first list being
\* the first segment of the reordering, forward.
C26_SameSegmentsAndLength ==
    Returned =>
        \A perm \in Reorderings :
            LET other == combine_segments(Reordered(segments, perm))
            IN  /\ other.length = total_length
                /\ Len(other.coords) = Len(segment_list)
                /\ Len(segments) >= 1 =>
                       /\ OneToOne(other.coords, segments)
                       /\ other.coords[1] = segments[perm[1]].coordinates

\* Two segments of different lengths that touch: taken in the other order
\* they come out in another order and orientation, with the same total length
C26_Witness ==
    /\ Returned
    /\ Len(segments) = 2
    /\ total_length > 0
    /\ GetLength(segments[1]) # GetLength(segments[2])
    /\ JoinDoubled(segment_list, 1)
    /\ LET other == combine_segments(Reordered(segments, <<2, 1>>))
       IN  /\ other.coords # segment_list
           /\ other.coords[2] = Reverse(segments[1].coordinates)
           /\ other.coords[2] # segment_list[1]
           /\ other.length = total_length

\* C27: in the payload, two road objects with different names never have the
\* same key.
C27_RoadKeysUnique ==
    PayloadReturned =>
        \A k, l \in 1..Len(road_objects) :
            road_objects[k].name # road_objects[l].name =>
                road_objects[k].key # road_objects[l].key

\* Two roads whose names differ only in the case of their letters have
\* received the same key
DifferentNamesSameKey ==
    /\ PayloadReturned
    /\ \E k, l \in 1..Len(road_objects) :
           /\ road_objects[k].name # road_objects[l].name
           /\ EqualsIgnoringCase(road_objects[k].name, road_objects[l].name)
           /\ road_objects[k].key = road_objects[l].key
           /\ road_objects[k].temp_id # road_objects[l].temp_id

----------------------------------------------------------------------------
(* The road type catalog: at most one entry matches a name *)

\* The catalog indices whose entry passes the tests of extract_road_type
MatchingEntries(name) ==
    {i \in 1..Len(ROAD_TYPES) : EntryMatches(name, ROAD_TYPES[i])}

\* The first entry of the catalog, taken in the given order, that passes the
\* tests; None if no entry does
RECURSIVE FirstMatchIn(_, _)
FirstMatchIn(catalog, name) ==
    IF catalog = <<>> THEN None
    ELSE IF EntryMatches(name, Head(catalog)) THEN Head(catalog)
    ELSE FirstMatchIn(Tail(catalog), name)

\* The catalog started at its r-th entry, and the catalog backwards
Rotated(r) ==
    SubSeq(ROAD_TYPES, r, Len(ROAD_TYPES)) \o SubSeq(ROAD_TYPES, 1, r - 1)

\* The longest entry that passes the tests; None if no entry does
LongestMatch(name) ==
    IF MatchingEntries(name) = {} THEN None
    ELSE ROAD_TYPES[CHOOSE i \in MatchingEntries(name) :
                        \A j \in MatchingEntries(name) :
                            Len(ROAD_TYPES[j]) <= Len(ROAD_TYPES[i])]

\* No entry of the catalog holds a space, and no two entries are equal up
\* to case
EntriesAreDistinctWords ==
    /\ \A i \in 1..Len(ROAD_TYPES) :
           \A c \in 1..Len(ROAD_TYPES[i]) : ROAD_TYPES[i][c] # " "
    /\ \A i, j \in 1..Len(ROAD_TYPES) :
           EqualsIgnoringCase(ROAD_TYPES[i], ROAD_TYPES[j]) => i = j

\* C28: at most one entry of ROAD_TYPES passes the tests of
\* extract_road_type for a name, so the result is the same for the catalog
\* read backwards or started at any of its entries, and is the longest
\* matching entry.
C28_AtMostOneEntryMatches ==
    /\ EntriesAreDistinctWords
    /\ TypeReturned =>
           /\ Cardinality(MatchingEntries(road_name)) <= 1
           /\ road_type = FirstMatchIn(Reverse(ROAD_TYPES), road_name)
           /\ \A r \in 1..Len(ROAD_TYPES) :
                  road_type = FirstMatchIn(Rotated(r), road_name)
           /\ road_type = LongestMatch(road_name)

\* "Broadway Parkway" was classified: the name ends with the letters of
\* 'Way', which comes last in the catalog, and of 'Parkway'
C28_Witness ==
    /\ TypeReturned
    /\ road_name = Str_Broadway \o <<" ">> \o Str_Parkway
    /\ endswith(lower(road_name), lower(Str_Way))
    /\ MatchingEntries(road_name) = {10}
    /\ road_type = Str_Parkway

----------------------------------------------------------------------------
(* The size categories as an order on the roads *)

\* The size of the k-th road of the dictionary
SizeOf(k) == size_map[KeyAt(formatted_roads, k)]

\* C29: the size given by calculate_size_categories is monotone in length.
\* A road strictly shorter than another one has a category that is not
\* larger, in the order small < medium < big, and 'big' has at least as many
\* roads as 'small' and as 'medium'.
C29_SizeIsMonotoneInLength ==
    SizeReturned =>
        /\ \A a, b \in 1..Len(formatted_roads) :
               formatted_roads[a].length < formatted_roads[b].length =>
                   SizeRank(SizeOf(a)) <= SizeRank(SizeOf(b))
        /\ Cardinality(Labelled("big")) >= Cardinality(Labelled("small"))
        /\ Cardinality(Labelled("big")) >= Cardinality(Labelled("medium"))

\* Five roads given from the longest to the shortest, two of them of equal
\* length in different categories, with more 'big' roads than 'small' ones
C29_Witness ==
    /\ SizeReturned
    /\ Len(formatted_roads) = 5
    /\ \A k \in 1..4 : formatted_roads[k].length >= formatted_roads[k + 1].length
    /\ formatted_roads[1].length > formatted_roads[5].length
    /\ \E a, b \in 1..5 :
           /\ formatted_roads[a].length = formatted_roads[b].length
           /\ SizeRank(SizeOf(a)) < SizeRank(SizeOf(b))
    /\ Cardinality(Labelled("big")) > Cardinality(Labelled("small"))

----------------------------------------------------------------------------
(* Polygons with interior rings *)

\* The areas whose geometry is a Polygon with at least one interior ring
HoledPolygonAreas ==
    {a \in 1..Len(areas) :
        /\ areas[a].geometry.type = "Polygon"
        /\ Len(areas[a].geometry.coordinates) > 1}

\* The road has a point, and each of its points lies strictly inside the ring
AllPointsInside(coords, ring) ==
    /\ \E s \in 1..Len(coords) : Len(coords[s]) > 0
    /\ \A s \in 1..Len(coords) : \A c \in 1..Len(coords[s]) :
           StrictlyInside(coords[s][c], ring)

\* The Polygon of the geometry's first ring alone
OuterOnly(geometry) ==
    [type |-> "Polygon", coordinates |-> <<geometry.coordinates[1]>>]

\* C30: membership looks only at the first ring of a polygon. For a Polygon
\* with interior rings get_areas_for_coordinates reports what it reports for
\* the first ring alone, load_area_geojson loads the first ring alone, and
\* with either a road whose only points lie inside a hole of the polygon is
\* in the area.
C30_InteriorRingsAreIgnored ==
    /\ \A g \in Geometries :
           ("type" \in DOMAIN g /\ g.type = "Polygon") =>
               /\ load_area_geojson(AreaFile(g)).loaded
               /\ load_area_geojson(AreaFile(g)).polygon = g.coordinates[1]
    /\ AreasReturned =>
           \A a \in HoledPolygonAreas :
               LET rings == areas[a].geometry.coordinates
               IN  /\ Reported(a) <=>
                          get_areas_for_coordinates(
                              coordinates,
                              <<[name |-> areas[a].name,
                                 geometry |-> OuterOnly(areas[a].geometry)]>>)
                          = <<areas[a].name>>
                   /\ (\E h \in 2..Len(rings) : AllPointsInside(coordinates, rings[h]))
                          => Reported(a)
    /\ (CheckReturned /\ polygon = OuterRing) =>
           (AllPointsInside(coordinates, SquareRing) => in_area)

\* A road whose only point (1, 1) lies in the square hole of an area was
\* reported as being in that area
C30_Witness ==
    /\ AreasReturned
    /\ coordinates = << << <<1, 1>> >> >>
    /\ \E a \in HoledPolygonAreas :
           /\ areas[a].geometry.coordinates = <<OuterRing, SquareRing>>
           /\ AllPointsInside(coordinates, SquareRing)
           /\ Reported(a)

\* The same road was found in the area by check_road_in_area, on the polygon
\* that load_area_geojson made of the area's file
HoleIgnoredByLibraryPath ==
    /\ CheckReturned
    /\ polygon = OuterRing
    /\ coordinates = << << <<1, 1>> >> >>
    /\ in_area

====
